---- MODULE Spec2Model ----
(***************************************************************************)
(* EdgePulse-Pi5: the analysis-and-alerting pipeline.                      *)
(*                                                                         *)
(*   VitalSignsAnalyzer  (src/src/analyzer.py)  rolling windows, threshold *)
(*                       classifier, trend detector, cooldown filter       *)
(*   AlertManager        (src/src/alerts.py)    severity routing, history  *)
(*   DataHandler         (src/src/data_handler.py) save_reading/save_alert *)
(*   EdgePulseMonitor    (src/main.py)          the monitoring loop        *)
(*                                                                         *)
(* Numbers.  Heart rate and SpO2 are integers.  Temperatures are kept in   *)
(* tenths of a degree (36.1 C is 361); a temperature that is compared is   *)
(* first brought to units of 1/90 C (Celsius tenths times 9, Fahrenheit    *)
(* tenths minus 320 times 5), so that (F - 32) * 5 / 9 is exact.  Means of *)
(* five samples are compared through the sums (mean > mean' + 20 is        *)
(* sum > sum' + 100).  Time is in whole seconds.                           *)
(***************************************************************************)
EXTENDS Integers, Sequences, FiniteSets, TLC

VARIABLES
    \* ---- VitalSignsAnalyzer
    thresholds,           \* self.thresholds
    heart_rate_history,   \* deque(maxlen=60)
    spo2_history,         \* deque(maxlen=60)
    temp_history,         \* deque(maxlen=60)
    last_alert_time,      \* dict: alert key -> time of the last emission
    raw_alerts,           \* analyze(): the local list before _apply_cooldown
    returned,             \* analyze() / _apply_cooldown(): the list returned
    readings,             \* the reading of the last analyze()
    prev_alert_time,      \* last_alert_time as the last filter call found it
    call_time,            \* the clock as the last filter call read it
    emitted,              \* the events filter calls have returned: before the
                          \* last call, and in all
    cleared,              \* the cooldown state the last reset_history emptied,
                          \* kept through the analyze call that follows it
    \* ---- AlertManager
    email_enabled,        \* EmailAlert.enabled
    sms_enabled,          \* SMSAlert.enabled
    indicators,           \* LocalAlert.indicators is set
    alert_history,        \* self.alert_history
    attempted,            \* channels whose send() the last send_alert invoked
    results,              \* the mapping the last send_alert returned
    calls,                \* send() calls the last send_alert made, per channel
    outcome,              \* what each transport achieved in the last send_alert
    dispatched,           \* every event passed to send_alert since the
                          \* history was last empty by construction or clear
    \* ---- DataHandler
    db_readings,          \* rows of table readings, oldest first
    db_alerts,            \* rows of table alerts, oldest first
    \* ---- EdgePulseMonitor.start
    running,              \* self.running
    pc,                   \* position of the loop
    consecutive_errors,   \* the local counter of start()
    alerts,               \* the alerts of this tick still to be handled
    \* ---- environment and history
    now,                  \* the clock read by datetime.now()
    ingested,             \* every value appended to each window, in order
    last_tick,            \* what the last tick did
    acq_run,              \* acquisition failures since success or escalation
    shadow_errors,        \* the counter, had every failing tick been an
                          \* acquisition failure
    shadow_escalations,   \* the escalations of that run
    escalations,          \* system_error alerts sent by the loop
    stop_requested,       \* stop() has been called
    save_failures,        \* inserts of the DataHandler that failed
    tick_log,             \* what the tick in progress (or the last one) did
    cleanups,             \* executions of cleanup()
    \* ---- SensorManager
    led,                  \* the colour StatusIndicators.set_led last showed
    read_result,          \* how the last read_all() call ended
    \* ---- the query surface
    response              \* the operation last queried and what it returned

vars == << thresholds, heart_rate_history, spo2_history, temp_history,
           last_alert_time, raw_alerts, returned, readings, prev_alert_time,
           call_time, emitted, cleared, email_enabled, sms_enabled,
           indicators, alert_history, attempted, results, calls, outcome,
           dispatched, db_readings,
           db_alerts, save_failures, running, pc, consecutive_errors, alerts, now,
           ingested,
           last_tick, acq_run, shadow_errors, shadow_escalations, escalations,
           stop_requested, tick_log, cleanups, led, read_result, response >>

analyzerVars == << heart_rate_history, spo2_history, temp_history,
                   last_alert_time, raw_alerts, returned, readings,
                   prev_alert_time, call_time, emitted, cleared, ingested >>
managerVars  == << alert_history, attempted, results, calls, outcome,
                   dispatched >>
configVars   == << thresholds, email_enabled, sms_enabled, indicators >>
sensorVars   == << led, read_result >>
\* What the operations of the analyzer, the dispatcher, the storage writes
\* and the loop leave alone.
fixedVars    == << configVars, sensorVars, response >>
storageVars  == << db_readings, db_alerts, save_failures >>
loopVars     == << running, pc, consecutive_errors, alerts, last_tick, acq_run,
                   shadow_errors, shadow_escalations, escalations,
                   stop_requested, tick_log, cleanups >>

(***************************************************************************)
(* Program constants.                                                      *)
(***************************************************************************)
WindowCap            == 60      \* deque(maxlen=60)
AlertCooldown        == 300     \* self.alert_cooldown
MaxConsecutiveErrors == 5       \* max_consecutive_errors
MaxHistory           == 1000    \* self.max_history
TrendSamples         == 10      \* len(history) >= 10
TrendHalf            == 5       \* [-5:] and [-10:-5]
FeverCutoff          == 385     \* 38.5 C, in tenths

Severities == {"info", "warning", "critical"}
Channels   == {"email", "sms", "local"}
Vitals     == {"heart_rate", "spo2", "temperature"}

\* The thresholds of the shipped configuration (tenths for the temperature).
DefaultThresholds ==
    [ heart_rate  |-> [min |-> 60,  max |-> 100, critical_min |-> 40,
                       critical_max |-> 150],
      spo2        |-> [min |-> 95,  critical_min |-> 90],
      temperature |-> [min |-> 361, max |-> 378, critical_min |-> 350,
                       critical_max |-> 390] ]

(***************************************************************************)
(* Sequence helpers.                                                       *)
(***************************************************************************)
RECURSIVE SumSeq(_)
SumSeq(s) == IF s = << >> THEN 0 ELSE Head(s) + SumSeq(Tail(s))

\* Python s[-n:] for n >= 1
LastN(s, n) == IF Len(s) <= n THEN s ELSE SubSeq(s, Len(s) - n + 1, Len(s))

\* Python s[-(n+m):-m] for Len(s) >= n + m
BeforeLastN(s, n, m) == SubSeq(s, Len(s) - n - m + 1, Len(s) - m)

\* deque(maxlen=WindowCap).append
DequeAppend(d, v) ==
    IF Len(d) >= WindowCap THEN Append(Tail(d), v) ELSE Append(d, v)

Has(rdg, k) == k \in DOMAIN rdg

(***************************************************************************)
(* VitalSignsAnalyzer: the threshold classifier.                           *)
(***************************************************************************)
\* One alert dictionary.  threshold names the configured bound the rule read
\* ("none" for a rule that reads none); value is the observed value.
Alert(type, severity, threshold, value, at) ==
    [ type |-> type, severity |-> severity, threshold |-> threshold,
      value |-> value, timestamp |-> at ]

AnalyzeHeartRate_NoElif(rdg, t, at) ==
    IF ~Has(rdg, "heart_rate") THEN << >>
    ELSE LET hr == rdg.heart_rate
             th == t.heart_rate
         IN  (IF hr < th.critical_min
                THEN << Alert("heart_rate", "critical", "critical_min", hr, at) >>
                ELSE << >>)
             \o (IF hr > th.critical_max
                THEN << Alert("heart_rate", "critical", "critical_max", hr, at) >>
                ELSE << >>)
             \o (IF hr < th.min
                THEN << Alert("heart_rate", "warning", "min", hr, at) >>
                ELSE << >>)
             \o (IF hr > th.max
                THEN << Alert("heart_rate", "warning", "max", hr, at) >>
                ELSE << >>)

AnalyzeHeartRate_Inclusive(rdg, t, at) ==
    IF ~Has(rdg, "heart_rate") THEN << >>
    ELSE LET hr == rdg.heart_rate
             th == t.heart_rate
         IN  IF hr <= th.critical_min
               THEN << Alert("heart_rate", "critical", "critical_min", hr, at) >>
             ELSE IF hr >= th.critical_max
               THEN << Alert("heart_rate", "critical", "critical_max", hr, at) >>
             ELSE IF hr <= th.min
               THEN << Alert("heart_rate", "warning", "min", hr, at) >>
             ELSE IF hr >= th.max
               THEN << Alert("heart_rate", "warning", "max", hr, at) >>
             ELSE << >>

\* _analyze_heart_rate
AnalyzeHeartRate(rdg, t, at) ==
    IF ~Has(rdg, "heart_rate") THEN << >>
    ELSE LET hr == rdg.heart_rate
             th == t.heart_rate
         IN  IF hr < th.critical_min
               THEN << Alert("heart_rate", "critical", "critical_min", hr, at) >>
             ELSE IF hr > th.critical_max
               THEN << Alert("heart_rate", "critical", "critical_max", hr, at) >>
             ELSE IF hr < th.min
               THEN << Alert("heart_rate", "warning", "min", hr, at) >>
             ELSE IF hr > th.max
               THEN << Alert("heart_rate", "warning", "max", hr, at) >>
             ELSE << >>

\* _analyze_spo2
AnalyzeSpo2(rdg, t, at) ==
    IF ~Has(rdg, "spo2") THEN << >>
    ELSE LET spo2 == rdg.spo2
             th   == t.spo2
         IN  IF spo2 < th.critical_min
               THEN << Alert("spo2", "critical", "critical_min", spo2, at) >>
             ELSE IF spo2 < th.min
               THEN << Alert("spo2", "warning", "min", spo2, at) >>
             ELSE << >>

\* readings.get('temperature_unit', 'C')
UnitOf(rdg) ==
    IF Has(rdg, "temperature_unit") THEN rdg.temperature_unit ELSE "C"

\* The temperature the comparisons see, in units of 1/90 C:
\* (temp - 32) * 5/9 for Fahrenheit tenths, temp itself for Celsius tenths.
Celsius90(temp, unit) == IF unit = "F" THEN (temp - 320) * 5 ELSE temp * 9

\* A bound given in tenths, in units of 1/90 C.
Bound90(b) == b * 9

\* _analyze_temperature
AnalyzeTemperature(rdg, t, at) ==
    IF ~Has(rdg, "temperature") THEN << >>
    ELSE LET temp == Celsius90(rdg.temperature, UnitOf(rdg))
             th   == t.temperature
         IN  IF temp < Bound90(th.critical_min)
               THEN << Alert("temperature", "critical", "critical_min", temp, at) >>
             ELSE IF temp > Bound90(th.critical_max)
               THEN << Alert("temperature", "critical", "critical_max", temp, at) >>
             ELSE IF temp < Bound90(th.min)
               THEN << Alert("temperature", "warning", "min", temp, at) >>
             ELSE IF temp > Bound90(th.max)
               THEN << Alert("temperature",
                             IF temp < Bound90(FeverCutoff) THEN "warning"
                                                            ELSE "critical",
                             "max", temp, at) >>
             ELSE << >>

(***************************************************************************)
(* VitalSignsAnalyzer: the trend detector.                                 *)
(***************************************************************************)
HrTrendDelta   == 20     \* recent_avg > older_avg + 20
Spo2TrendDelta == 3      \* recent_avg < older_avg - 3
TempTrendDelta == 5      \* recent_avg > older_avg + 0.5, in tenths

\* sum(list(h)[-5:]) and sum(list(h)[-10:-5]): five times the two means
RecentSum(h) == SumSeq(LastN(h, TrendHalf))
OlderSum(h)  == SumSeq(BeforeLastN(h, TrendHalf, TrendHalf))

HeartRateTrend_EarlyStart(h, at) ==
    IF Len(h) >= TrendHalf + 1
         /\ RecentSum(h) > SumSeq(SubSeq(h, 1, Len(h) - TrendHalf))
                           + TrendHalf * HrTrendDelta
    THEN << Alert("heart_rate_trend", "warning", "none",
                  RecentSum(h) - SumSeq(SubSeq(h, 1, Len(h) - TrendHalf)), at) >>
    ELSE << >>

\* _analyze_trends: rapid heart rate increase
HeartRateTrend(h, at) ==
    IF Len(h) >= TrendSamples
         /\ RecentSum(h) > OlderSum(h) + TrendHalf * HrTrendDelta
    THEN << Alert("heart_rate_trend", "warning", "none",
                  RecentSum(h) - OlderSum(h), at) >>
    ELSE << >>

\* _analyze_trends: declining SpO2
Spo2Trend(h, at) ==
    IF Len(h) >= TrendSamples
         /\ RecentSum(h) < OlderSum(h) - TrendHalf * Spo2TrendDelta
    THEN << Alert("spo2_trend", "warning", "none",
                  RecentSum(h) - OlderSum(h), at) >>
    ELSE << >>

\* _analyze_trends: rising temperature (the window holds the temperature as
\* read, whatever its unit)
TemperatureTrend(h, at) ==
    IF Len(h) >= TrendSamples
         /\ RecentSum(h) > OlderSum(h) + TrendHalf * TempTrendDelta
    THEN << Alert("temperature_trend", "info", "none",
                  RecentSum(h) - OlderSum(h), at) >>
    ELSE << >>

\* _analyze_trends
AnalyzeTrends(hh, sh, th, at) ==
    HeartRateTrend(hh, at) \o Spo2Trend(sh, at) \o TemperatureTrend(th, at)

(***************************************************************************)
(* VitalSignsAnalyzer: the cooldown filter.                                *)
(***************************************************************************)
\* f"{alert['type']}_{alert['severity']}"
AlertKey_TypeOnly(a) == a.type

AlertKey(a) == a.type \o "_" \o a.severity

\* self.last_alert_time[key] = t
SetTime(lat, key, t) ==
    [k \in DOMAIN lat \cup {key} |-> IF k = key THEN t ELSE lat[k]]

\* The test of one alert: TRUE when the alert is skipped.
InCooldown_Inclusive(lat, key, current_time) ==
    key \in DOMAIN lat /\ current_time - lat[key] <= AlertCooldown

InCooldown(lat, key, current_time) ==
    key \in DOMAIN lat /\ current_time - lat[key] < AlertCooldown

\* The loop with the time of a key moved also when its event is skipped.
RECURSIVE CooldownLoop_DropMovesTime(_, _, _, _)
CooldownLoop_DropMovesTime(rest, kept, lat, current_time) ==
    IF rest = << >> THEN [kept |-> kept, lat |-> lat]
    ELSE LET a   == Head(rest)
             key == AlertKey(a)
         IN  IF InCooldown(lat, key, current_time)
               THEN CooldownLoop_DropMovesTime(Tail(rest), kept,
                         SetTime(lat, key, current_time), current_time)
               ELSE CooldownLoop_DropMovesTime(Tail(rest), Append(kept, a),
                         SetTime(lat, key, current_time), current_time)

\* The for loop of _apply_cooldown over what is left of the list:
\* [kept |-> filtered_alerts, lat |-> self.last_alert_time]
RECURSIVE CooldownLoop(_, _, _, _)
CooldownLoop(rest, kept, lat, current_time) ==
    IF rest = << >> THEN [kept |-> kept, lat |-> lat]
    ELSE LET a   == Head(rest)
             key == AlertKey(a)
         IN  IF InCooldown(lat, key, current_time)
               THEN CooldownLoop(Tail(rest), kept, lat, current_time)
               ELSE CooldownLoop(Tail(rest), Append(kept, a),
                                 SetTime(lat, key, current_time), current_time)

ApplyCooldown_NoFilter(list, lat, current_time) ==
    [kept |-> list, lat |-> lat]

\* _apply_cooldown
ApplyCooldown(list, lat, current_time) ==
    CooldownLoop(list, << >>, lat, current_time)

(***************************************************************************)
(* VitalSignsAnalyzer.analyze                                              *)
(***************************************************************************)
\* An append to a window that never evicts.
Ingest_Unbounded(h, rdg, k) ==
    IF Has(rdg, k) THEN Append(h, rdg[k]) ELSE h

\* "Update history": the three appends
Ingest(h, rdg, k) ==
    IF Has(rdg, k) THEN DequeAppend(h, rdg[k]) ELSE h

\* The history variable beside a window: every value ever appended.
Record(h, rdg, k) ==
    IF Has(rdg, k) THEN Append(h, rdg[k]) ELSE h

\* The record of the events returned, after a call that returns kept
Emit(kept) ==
    [before |-> emitted.all,
     all    |-> emitted.all \cup { kept[i] : i \in 1..Len(kept) }]

\* A vital whose value is not a number (None): the stand-in for it, chosen
\* outside every range a vital takes.
NoneValue == 0 - 999

IsNumber(v) == v # NoneValue

\* hr < thresholds.get(...), spo2 < ..., (temp - 32), temp < ... raise
\* TypeError on a value that is not a number.
ClassifyRaises(rdg) ==
    \E k \in Vitals : Has(rdg, k) /\ ~IsNumber(rdg[k])

\* sum(list(history)[-5:]) and sum(list(history)[-10:-5]) raise TypeError when
\* one of the last ten values is not a number.
TrendRaises(h) ==
    /\ Len(h) >= TrendSamples
    /\ \E i \in (Len(h) - TrendSamples + 1)..Len(h) : ~IsNumber(h[i])

\* The try block of analyze leaves through its except clause.
AnalyzeRaises(rdg, hh, sh, th) ==
    \/ ClassifyRaises(rdg)
    \/ TrendRaises(hh)
    \/ TrendRaises(sh)
    \/ TrendRaises(th)

RawAlerts_TrendsFirst(rdg, t, hh, sh, th, at) ==
    AnalyzeTrends(hh, sh, th, at) \o AnalyzeHeartRate(rdg, t, at)
        \o AnalyzeSpo2(rdg, t, at) \o AnalyzeTemperature(rdg, t, at)

\* The list analyze builds before the cooldown filter
RawAlerts(rdg, t, hh, sh, th, at) ==
    AnalyzeHeartRate(rdg, t, at) \o AnalyzeSpo2(rdg, t, at)
        \o AnalyzeTemperature(rdg, t, at) \o AnalyzeTrends(hh, sh, th, at)

\* analyze(r): the new state of the analyzer and the list returned.  The
\* appends come first; an exception raised after them is caught, and analyze
\* returns [] without reaching the cooldown filter.
Analyze(r) ==
    LET hh  == Ingest(heart_rate_history, r, "heart_rate")
        sh  == Ingest(spo2_history, r, "spo2")
        th  == Ingest(temp_history, r, "temperature")
        raised == AnalyzeRaises(r, hh, sh, th)
    IN  \E raw \in { IF raised THEN << >>
                     ELSE RawAlerts(r, thresholds, hh, sh, th, now) } :
        \E out \in { IF raised THEN [kept |-> << >>, lat |-> last_alert_time]
                     ELSE ApplyCooldown(raw, last_alert_time, now) } :
        /\ heart_rate_history' = hh
        /\ spo2_history' = sh
        /\ temp_history' = th
        /\ ingested' = [ heart_rate  |-> Record(ingested.heart_rate, r, "heart_rate"),
                         spo2        |-> Record(ingested.spo2, r, "spo2"),
                         temperature |-> Record(ingested.temperature, r, "temperature") ]
        /\ readings' = r
        /\ prev_alert_time' = last_alert_time
        /\ call_time' = now
        /\ raw_alerts' = raw
        /\ last_alert_time' = out.lat
        /\ returned' = out.kept
        /\ emitted' = Emit(out.kept)
        /\ cleared' = IF ingested.heart_rate = << >> /\ ingested.spo2 = << >>
                          /\ ingested.temperature = << >>
                       THEN cleared ELSE << >>

\* _apply_cooldown(list), called on its own
Filter(list) ==
    LET out == ApplyCooldown(list, last_alert_time, now)
    IN  /\ last_alert_time' = out.lat
        /\ returned' = out.kept
        /\ raw_alerts' = list
        /\ prev_alert_time' = last_alert_time
        /\ call_time' = now
        /\ emitted' = Emit(out.kept)
        /\ UNCHANGED << heart_rate_history, spo2_history, temp_history, readings,
                        ingested, cleared >>

\* reset_history without the last_alert_time.clear()
ResetHistory_KeepsCooldown ==
    /\ heart_rate_history' = << >>
    /\ spo2_history' = << >>
    /\ temp_history' = << >>
    /\ last_alert_time' = last_alert_time
    /\ cleared' = last_alert_time
    /\ ingested' = [heart_rate |-> << >>, spo2 |-> << >>, temperature |-> << >>]
    /\ emitted' = [before |-> {}, all |-> {}]
    /\ UNCHANGED << raw_alerts, returned, readings, prev_alert_time, call_time >>

\* reset_history
ResetHistory ==
    /\ heart_rate_history' = << >>
    /\ spo2_history' = << >>
    /\ temp_history' = << >>
    /\ last_alert_time' = << >>
    /\ cleared' = last_alert_time
    /\ ingested' = [heart_rate |-> << >>, spo2 |-> << >>, temperature |-> << >>]
    /\ emitted' = [before |-> {}, all |-> {}]
    /\ UNCHANGED << raw_alerts, returned, readings, prev_alert_time, call_time >>

(***************************************************************************)
(* AlertManager                                                            *)
(***************************************************************************)
Route_SmsOnWarning(severity) ==
    IF severity = "info" THEN {"local"} ELSE {"email", "sms", "local"}

\* send_alert: the channels whose send() the severity selects
Route(severity) ==
    IF severity = "critical" THEN {"email", "sms", "local"}
    ELSE IF severity = "warning" THEN {"email", "local"}
    ELSE {"local"}

\* EmailAlert.send / SMSAlert.send / LocalAlert.send: False when the channel
\* is disabled (or has no indicators), else what the transport achieved
\* (an exception of the transport is caught and gives False).
ChannelSend(ch, transport) ==
    CASE ch = "email" -> email_enabled /\ transport[ch]
      [] ch = "sms"   -> sms_enabled /\ transport[ch]
      [] ch = "local" -> indicators /\ transport[ch]

\* A history that refuses the new entry once it is full.
HistoryAppend_KeepsOldest(h, alert) ==
    IF Len(h) + 1 > MaxHistory THEN h ELSE Append(h, alert)

\* self.alert_history.append(alert), then pop(0) above max_history
HistoryAppend(h, alert) ==
    IF Len(h) + 1 > MaxHistory THEN Tail(Append(h, alert)) ELSE Append(h, alert)

\* The channels in the order send_alert calls them
ChannelOrder == << "email", "sms", "local" >>

\* A send_alert that gives up at the first channel that does not deliver.
SendAlert_StopsAtFailure(alert, transport) ==
    LET sel == Route(alert.severity)
        tried == { ChannelOrder[i] : i \in
                     { i \in 1..3 : /\ ChannelOrder[i] \in sel
                                    /\ \A j \in 1..(i - 1) :
                                          ChannelOrder[j] \in sel
                                              => ChannelSend(ChannelOrder[j], transport) } }
    IN  /\ alert_history' = HistoryAppend(alert_history, alert)
        /\ attempted' = tried
        /\ results' = [ch \in Channels |-> ch \in tried /\ ChannelSend(ch, transport)]
        /\ calls' = [ch \in Channels |-> IF ch \in tried THEN 1 ELSE 0]
        /\ outcome' = transport
        /\ dispatched' = Append(dispatched, alert)

\* send_alert(alert); transport[ch] is what channel ch's transport achieves
SendAlert(alert, transport) ==
    /\ alert_history' = HistoryAppend(alert_history, alert)
    /\ attempted' = Route(alert.severity)
    /\ results' = [ch \in Channels |->
                      ch \in Route(alert.severity) /\ ChannelSend(ch, transport)]
    /\ calls' = [ch \in Channels |-> IF ch \in Route(alert.severity) THEN 1 ELSE 0]
    /\ outcome' = transport
    /\ dispatched' = Append(dispatched, alert)

\* clear_history
ClearHistory ==
    /\ alert_history' = << >>
    /\ dispatched' = << >>
    /\ UNCHANGED << attempted, results, calls, outcome >>

Transports == [Channels -> BOOLEAN]

\* The transports of the runs of the loop: every one delivers, or none does.
LoopTransports == { [ch \in Channels |-> b] : b \in BOOLEAN }

(***************************************************************************)
(* DataHandler                                                             *)
(***************************************************************************)
MaxSaveFailures == 1   \* inserts that fail in the runs explored

\* readings.get(k): None for a key the dictionary lacks
Get(rdg, k) == IF Has(rdg, k) THEN rdg[k] ELSE NoneValue

\* The row INSERT INTO readings makes: the four columns given, and the
\* timestamp column left to its default CURRENT_TIMESTAMP.
ReadingRow(rdg, at) ==
    [ timestamp |-> at,
      heart_rate |-> Get(rdg, "heart_rate"),
      spo2 |-> Get(rdg, "spo2"),
      temperature |-> Get(rdg, "temperature"),
      temperature_unit |-> IF Has(rdg, "temperature_unit")
                             THEN rdg.temperature_unit ELSE "C" ]

\* save_reading: the row inserted when the insert succeeds
SaveReading(rdg, ok) ==
    /\ ~ok => save_failures < MaxSaveFailures
    /\ db_readings' = IF ok THEN Append(db_readings, ReadingRow(rdg, now))
                             ELSE db_readings
    /\ save_failures' = IF ok THEN save_failures ELSE save_failures + 1
    /\ UNCHANGED db_alerts

\* save_alert: the row inserted when the insert succeeds
SaveAlert(alert, ok) ==
    /\ ~ok => save_failures < MaxSaveFailures
    /\ db_alerts' = IF ok THEN Append(db_alerts, alert) ELSE db_alerts
    /\ save_failures' = IF ok THEN save_failures ELSE save_failures + 1
    /\ UNCHANGED db_readings

\* Row i of a table comes before row j in ORDER BY timestamp DESC.  Rows are
\* kept in the order of their ids; the query walks idx_readings_timestamp or
\* idx_alerts_timestamp backwards, and an index lists rows of one timestamp
\* by id, so among equal timestamps the higher id comes first.
Precedes_Ascending(rows, i, j) ==
    \/ rows[i].timestamp < rows[j].timestamp
    \/ rows[i].timestamp = rows[j].timestamp /\ i < j

Precedes(rows, i, j) ==
    \/ rows[i].timestamp > rows[j].timestamp
    \/ rows[i].timestamp = rows[j].timestamp /\ i > j

\* The first n rows, of those numbered in ids, in the order of the query.
RECURSIVE Fetch(_, _, _)
Fetch(rows, ids, n) ==
    IF n = 0 \/ ids = {} THEN << >>
    ELSE LET first == CHOOSE i \in ids :
                          \A j \in ids \ {i} : Precedes(rows, i, j)
         IN  << rows[first] >> \o Fetch(rows, ids \ {first}, n - 1)

\* SELECT * FROM table WHERE timestamp >= start_date
\*   ORDER BY timestamp DESC LIMIT limit
\* start_date None adds no condition; a negative LIMIT is no limit.
Select(rows, start_date, limit) ==
    LET ids == { i \in 1..Len(rows) :
                    start_date = NoneValue \/ rows[i].timestamp >= start_date }
    IN  Fetch(rows, ids, IF limit < 0 THEN Len(rows) ELSE limit)

\* get_readings(start_date, limit=...) and get_alerts(start_date, limit=...)
GetReadings(start_date, limit) ==
    /\ response' = [op |-> "get_readings", arg |-> limit,
                    value |-> Select(db_readings, start_date, limit)]
    /\ UNCHANGED << storageVars, sensorVars >>

GetAlerts(start_date, limit) ==
    /\ response' = [op |-> "get_alerts", arg |-> limit,
                    value |-> Select(db_alerts, start_date, limit)]
    /\ UNCHANGED << storageVars, sensorVars >>

\* get_statistics(start_date): COUNT, and per column the values AVG, MIN and
\* MAX are taken over (AVG as sum and count); None over no rows.
Column(rows, ids, c) == { rows[i][c] : i \in ids }

RECURSIVE SumOver(_, _, _)
SumOver(rows, ids, c) ==
    IF ids = {} THEN 0
    ELSE LET i == CHOOSE k \in ids : TRUE
         IN  rows[i][c] + SumOver(rows, ids \ {i}, c)

Statistics(rows, start_date) ==
    LET ids == { i \in 1..Len(rows) :
                    start_date = NoneValue \/ rows[i].timestamp >= start_date }
        Min(c) == IF ids = {} THEN NoneValue
                  ELSE CHOOSE v \in Column(rows, ids, c) :
                           \A w \in Column(rows, ids, c) : v <= w
        Max(c) == IF ids = {} THEN NoneValue
                  ELSE CHOOSE v \in Column(rows, ids, c) :
                           \A w \in Column(rows, ids, c) : v >= w
    IN  [ count |-> Cardinality(ids),
          sum   |-> [c \in Vitals |-> SumOver(rows, ids, c)],
          min   |-> [c \in Vitals |-> Min(c)],
          max   |-> [c \in Vitals |-> Max(c)] ]

(***************************************************************************)
(* SensorManager (src/src/sensors.py): read_all and the two sensors.       *)
(* The heart rate and the SpO2 computed from the samples are in tenths,    *)
(* the temperature the probe reports in hundredths of a degree Celsius.    *)
(***************************************************************************)
\* Python None where a dictionary is expected.
None == << >>

\* MAX30102Sensor.read: the validation of the computed values.  NoneValue
\* stands for a value _calculate_heart_rate or _calculate_spo2 did not
\* produce (no samples, too few peaks, an exception caught by read).
PulseOxRead(heart_rate, spo2) ==
    IF /\ heart_rate # NoneValue /\ 300 <= heart_rate /\ heart_rate <= 2500
       /\ spo2 # NoneValue /\ 700 <= spo2 /\ spo2 <= 1000
      THEN [heart_rate |-> heart_rate \div 10, spo2 |-> spo2 \div 10]
      ELSE None

\* DS18B20Sensor.read: round(temp_celsius, 1) of a value in the body range;
\* NoneValue stands for a probe read that raised.  The result is in tenths.
TemperatureRead(temp_celsius) ==
    IF temp_celsius # NoneValue /\ 3000 <= temp_celsius /\ temp_celsius <= 4200
      THEN [temperature |-> (temp_celsius + 5) \div 10, temperature_unit |-> "C"]
      ELSE None

\* {**pulse_ox_data, **temp_data} with the timestamp added
Merge(pulse_ox_data, temp_data, at) ==
    [timestamp |-> at] @@ temp_data @@ pulse_ox_data

Combine_AnySensor(pulse_ox_data, temp_data, at) ==
    IF pulse_ox_data # None \/ temp_data # None
      THEN Merge(pulse_ox_data, temp_data, at)
      ELSE None

\* if pulse_ox_data and temp_data: ... else: return None
Combine(pulse_ox_data, temp_data, at) ==
    IF pulse_ox_data # None /\ temp_data # None
      THEN Merge(pulse_ox_data, temp_data, at)
      ELSE None

ReadResult(kind, value, pulse_ox_data, temp_data) ==
    [kind |-> kind, value |-> value, pulse_ox_data |-> pulse_ox_data,
     temp_data |-> temp_data]

NotCalled == ReadResult("none", None, None, None)

\* read_all().  led_ok: the set_led of the try block returns; handler_ok: the
\* set_led('red') of the except clause returns.  A set_led that raises has
\* not changed the colour; when the one of the except clause raises, the
\* exception leaves read_all.
ReadAll(heart_rate, spo2, temp_celsius, led_ok, handler_ok) ==
    LET pulse_ox_data == PulseOxRead(heart_rate, spo2)
        temp_data     == TemperatureRead(temp_celsius)
        value         == Combine(pulse_ox_data, temp_data, now)
    IN  /\ read_result' =
              IF led_ok THEN ReadResult("returned", value, pulse_ox_data, temp_data)
              ELSE IF handler_ok
                     THEN ReadResult("returned", None, pulse_ox_data, temp_data)
                     ELSE ReadResult("raised", None, pulse_ox_data, temp_data)
        /\ led' = IF led_ok THEN (IF value # None THEN "green" ELSE "red")
                  ELSE IF handler_ok THEN "red" ELSE led

(***************************************************************************)
(* The query surface: EdgePulseMonitor.get_status (src/main.py) and the    *)
(* routes of the dashboard (src/src/web_dashboard.py).                     *)
(***************************************************************************)
SecondsPerHour == 3600

\* What a handler makes of the way read_all ended.  A response is kept as a
\* list: the rows of a query, or the one dictionary a handler returns.
Answer(op, arg, ok, data, failed) ==
    LET value == IF read_result'.kind = "raised" THEN [status |-> "error"]
                 ELSE IF read_result'.value = None THEN failed
                 ELSE [status |-> ok, data |-> data]
    IN  [op |-> op, arg |-> arg, value |-> << value >>]

\* get_status() with the counter of the loop cleared on a good reading
GetStatus_ClearsCounter(heart_rate, spo2, temp_celsius, led_ok, handler_ok) ==
    /\ ReadAll(heart_rate, spo2, temp_celsius, led_ok, handler_ok)
    /\ response' = Answer("get_status", now, "operational", read_result'.value,
                          [status |-> "sensor_error"])
    /\ consecutive_errors' =
          IF read_result'.value # None THEN 0 ELSE consecutive_errors
    /\ UNCHANGED << configVars, analyzerVars, managerVars, storageVars, now,
                    running, pc, alerts, last_tick, acq_run,
                    shadow_errors, shadow_escalations, escalations,
                    stop_requested, tick_log, cleanups >>

\* EdgePulseMonitor.get_status()
GetStatus(heart_rate, spo2, temp_celsius, led_ok, handler_ok) ==
    /\ ReadAll(heart_rate, spo2, temp_celsius, led_ok, handler_ok)
    /\ response' = Answer("get_status", now, "operational", read_result'.value,
                          [status |-> "sensor_error"])
    /\ UNCHANGED << configVars, analyzerVars, managerVars, storageVars, now,
                    running, pc, consecutive_errors, alerts, last_tick, acq_run,
                    shadow_errors, shadow_escalations, escalations,
                    stop_requested, tick_log, cleanups >>

\* GET /api/current
GetCurrent(heart_rate, spo2, temp_celsius, led_ok, handler_ok) ==
    /\ ReadAll(heart_rate, spo2, temp_celsius, led_ok, handler_ok)
    /\ response' = Answer("api_current", None, "success", read_result'.value,
                          [status |-> "failure"])
    /\ UNCHANGED << configVars, analyzerVars, managerVars, storageVars, loopVars,
                    now >>

\* GET /api/history?hours=...
GetHistory(hours) ==
    /\ response' = [op |-> "api_history", arg |-> hours,
                    value |-> Select(db_readings, now - hours * SecondsPerHour, 1000)]
    /\ UNCHANGED << configVars, sensorVars, analyzerVars, managerVars,
                    storageVars, loopVars, now >>

\* GET /api/alerts?hours=...
GetRecentAlerts(hours) ==
    /\ response' = [op |-> "api_alerts", arg |-> hours,
                    value |-> Select(db_alerts, now - hours * SecondsPerHour, 100)]
    /\ UNCHANGED << configVars, sensorVars, analyzerVars, managerVars,
                    storageVars, loopVars, now >>

\* GET /api/statistics?hours=...
GetStatistics(hours) ==
    /\ response' = [op |-> "api_statistics", arg |-> hours,
                    value |-> << Statistics(db_readings, now - hours * SecondsPerHour) >>]
    /\ UNCHANGED << configVars, sensorVars, analyzerVars, managerVars,
                    storageVars, loopVars, now >>

(***************************************************************************)
(* EdgePulseMonitor.start: the monitoring loop, one step per action.       *)
(*   idle -> loop -> tick -> (dispatch ->) sleep -> loop ... cleanup ->    *)
(*   stopped                                                               *)
(***************************************************************************)
MaxTime     == 450    \* the clock at which the runs explored end
MaxReadings == 2      \* readings a run of the loop acquires

\* What read_all returns on success in the runs explored: a normal reading
\* and one with a low heart rate and a critically low SpO2.
LoopReadings ==
    { [heart_rate |-> 75, spo2 |-> 98, temperature |-> 368, temperature_unit |-> "C"],
      [heart_rate |-> 45, spo2 |-> 88, temperature |-> 368, temperature_unit |-> "C"] }

\* Seconds from one tick to the next (the interval and what the tick took).
LoopDeltas == {50, 300}

\* error_alert of the failure branch
ErrorAlert(at) == Alert("system_error", "critical", "none", 0, at)

\* consecutive_errors >= max_consecutive_errors
Escalates(c) == c >= MaxConsecutiveErrors

TickRecord(kind, run, escalated) ==
    [kind |-> kind, run |-> run, escalated |-> escalated]

\* The record of a tick: whether it is in progress, the events handed to
\* send_alert and to save_alert, the calls of save_reading, the inserts that
\* failed, and the lengths of the history and of table alerts when it began.
TickIdle ==
    [open |-> FALSE, sent |-> << >>, saved |-> << >>, reading_saves |-> 0,
     failed_saves |-> 0, history_before |-> 0, alerts_before |-> 0]

TickOpened ==
    [TickIdle EXCEPT !.open = TRUE,
                     !.history_before = Len(alert_history),
                     !.alerts_before = Len(db_alerts)]

\* start(), up to the loop
Start ==
    /\ pc = "idle"
    /\ running' = TRUE
    /\ consecutive_errors' = 0
    /\ pc' = "loop"
    /\ UNCHANGED << analyzerVars, managerVars, fixedVars, storageVars, alerts,
                    now, last_tick, acq_run, shadow_errors, shadow_escalations,
                    escalations, stop_requested, tick_log, cleanups >>

\* while self.running
LoopTest ==
    /\ pc = "loop"
    /\ pc' = IF running THEN "tick" ELSE "cleanup"
    /\ tick_log' = IF running THEN TickOpened ELSE tick_log
    /\ UNCHANGED << analyzerVars, managerVars, fixedVars, storageVars, running,
                    consecutive_errors, alerts, now, last_tick, acq_run,
                    shadow_errors, shadow_escalations, escalations,
                    stop_requested, cleanups >>

\* read_all returned a reading: save_reading, analyze
ReadSuccess(r, ok) ==
    /\ pc = "tick"
    /\ Len(ingested.heart_rate) < MaxReadings
    /\ SaveReading(r, ok)
    /\ Analyze(r)
    /\ alerts' = returned'
    /\ tick_log' = [tick_log EXCEPT !.reading_saves = @ + 1,
                                    !.failed_saves = @ + (IF ok THEN 0 ELSE 1)]
    /\ pc' = "dispatch"
    /\ UNCHANGED << managerVars, fixedVars, running,
                    consecutive_errors, now, last_tick, acq_run, shadow_errors,
                    shadow_escalations, escalations, stop_requested, cleanups >>

\* A loop body that abandons the alerts left once a save has failed.
DispatchAlert_AbortsOnFailure(transport, ok) ==
    /\ pc = "dispatch"
    /\ alerts # << >>
    /\ SendAlert(Head(alerts), transport)
    /\ SaveAlert(Head(alerts), ok)
    /\ alerts' = IF ok THEN Tail(alerts) ELSE << >>
    /\ tick_log' = [tick_log EXCEPT !.sent = Append(@, Head(alerts)),
                                    !.saved = Append(@, Head(alerts)),
                                    !.failed_saves = @ + (IF ok THEN 0 ELSE 1)]
    /\ UNCHANGED << analyzerVars, fixedVars, running, pc,
                    consecutive_errors, now, last_tick, acq_run, shadow_errors,
                    shadow_escalations, escalations, stop_requested, cleanups >>

\* A loop body that sends the alert and does not save it.
DispatchAlert_SkipsSave(transport, ok) ==
    /\ pc = "dispatch"
    /\ alerts # << >>
    /\ SendAlert(Head(alerts), transport)
    /\ alerts' = Tail(alerts)
    /\ tick_log' = [tick_log EXCEPT !.sent = Append(@, Head(alerts))]
    /\ UNCHANGED << analyzerVars, fixedVars, storageVars, running, pc,
                    consecutive_errors, now, last_tick, acq_run, shadow_errors,
                    shadow_escalations, escalations, stop_requested, cleanups >>

\* the body of "for alert in alerts": send_alert, save_alert
DispatchAlert(transport, ok) ==
    /\ pc = "dispatch"
    /\ alerts # << >>
    /\ SendAlert(Head(alerts), transport)
    /\ SaveAlert(Head(alerts), ok)
    /\ alerts' = Tail(alerts)
    /\ tick_log' = [tick_log EXCEPT !.sent = Append(@, Head(alerts)),
                                    !.saved = Append(@, Head(alerts)),
                                    !.failed_saves = @ + (IF ok THEN 0 ELSE 1)]
    /\ UNCHANGED << analyzerVars, fixedVars, running, pc,
                    consecutive_errors, now, last_tick, acq_run, shadow_errors,
                    shadow_escalations, escalations, stop_requested, cleanups >>

\* "Reset error counter on successful reading"
FinishSuccess ==
    /\ pc = "dispatch"
    /\ alerts = << >>
    /\ consecutive_errors' = 0
    /\ last_tick' = TickRecord("success", 0, FALSE)
    /\ acq_run' = 0
    /\ shadow_errors' = 0
    /\ pc' = "sleep"
    /\ UNCHANGED << analyzerVars, managerVars, fixedVars, storageVars, running,
                    alerts, now, shadow_escalations, escalations,
                    stop_requested, tick_log, cleanups >>

\* read_all returned None: the else branch
ReadFailure(transport) ==
    LET c == consecutive_errors + 1
        s == shadow_errors + 1
        r == acq_run + 1
    IN  /\ pc = "tick"
        /\ consecutive_errors' = IF Escalates(c) THEN 0 ELSE c
        /\ IF Escalates(c)
             THEN /\ SendAlert(ErrorAlert(now), transport)
                  /\ escalations' = escalations + 1
                  /\ tick_log' = [tick_log EXCEPT !.sent = Append(@, ErrorAlert(now))]
             ELSE UNCHANGED << managerVars, escalations, tick_log >>
        /\ last_tick' = TickRecord("failure", r, Escalates(c))
        /\ acq_run' = IF Escalates(c) THEN 0 ELSE r
        /\ shadow_errors' = IF Escalates(s) THEN 0 ELSE s
        /\ shadow_escalations' = shadow_escalations + (IF Escalates(s) THEN 1 ELSE 0)
        /\ pc' = "sleep"
        /\ UNCHANGED << analyzerVars, fixedVars, storageVars, running, alerts,
                        now, stop_requested, cleanups >>

ReadRaises_Propagates ==
    /\ pc = "tick"
    /\ consecutive_errors' = consecutive_errors + 1
    /\ last_tick' = TickRecord("exception", acq_run, FALSE)
    /\ shadow_errors' = IF Escalates(shadow_errors + 1) THEN 0 ELSE shadow_errors + 1
    /\ shadow_escalations' =
           shadow_escalations + (IF Escalates(shadow_errors + 1) THEN 1 ELSE 0)
    /\ pc' = "cleanup"
    /\ UNCHANGED << analyzerVars, managerVars, fixedVars, storageVars, running,
                    alerts, now, acq_run, escalations, stop_requested, tick_log, cleanups >>

\* read_all raised (its own handler's set_led failed): the except branch
ReadRaises ==
    /\ pc = "tick"
    /\ consecutive_errors' = consecutive_errors + 1
    /\ last_tick' = TickRecord("exception", acq_run, FALSE)
    /\ shadow_errors' = IF Escalates(shadow_errors + 1) THEN 0 ELSE shadow_errors + 1
    /\ shadow_escalations' =
           shadow_escalations + (IF Escalates(shadow_errors + 1) THEN 1 ELSE 0)
    /\ pc' = "sleep"
    /\ UNCHANGED << analyzerVars, managerVars, fixedVars, storageVars, running,
                    alerts, now, acq_run, escalations, stop_requested, tick_log, cleanups >>

\* time.sleep(measurement_interval)
Sleep(d) ==
    /\ pc = "sleep"
    /\ running => now + d <= MaxTime
    /\ now' = now + d
    /\ pc' = "loop"
    /\ tick_log' = TickIdle
    /\ UNCHANGED << analyzerVars, managerVars, fixedVars, storageVars, running,
                    consecutive_errors, alerts, last_tick, acq_run,
                    shadow_errors, shadow_escalations, escalations,
                    stop_requested, cleanups >>

\* A stop() that leaves the running flag as it was.
Stop_FlagKept ==
    /\ pc \notin {"idle", "stopped"}
    /\ running
    /\ ~stop_requested
    /\ stop_requested' = TRUE
    /\ UNCHANGED << analyzerVars, managerVars, fixedVars, storageVars, pc,
                    running, consecutive_errors, alerts, now, last_tick, acq_run,
                    shadow_errors, shadow_escalations, escalations, tick_log,
                    cleanups >>

\* A stop() that tears the loop down where it stands.
Stop_Abrupt ==
    /\ pc \notin {"idle", "stopped"}
    /\ running
    /\ running' = FALSE
    /\ stop_requested' = TRUE
    /\ pc' = "cleanup"
    /\ UNCHANGED << analyzerVars, managerVars, fixedVars, storageVars,
                    consecutive_errors, alerts, now, last_tick, acq_run,
                    shadow_errors, shadow_escalations, escalations, tick_log,
                    cleanups >>

\* signal_handler -> stop()
Stop ==
    /\ pc \notin {"idle", "stopped"}
    /\ running
    /\ running' = FALSE
    /\ stop_requested' = TRUE
    /\ UNCHANGED << analyzerVars, managerVars, fixedVars, storageVars, pc,
                    consecutive_errors, alerts, now, last_tick, acq_run,
                    shadow_errors, shadow_escalations, escalations, tick_log,
                    cleanups >>

\* finally: self.cleanup()
Cleanup ==
    /\ pc = "cleanup"
    /\ pc' = "stopped"
    /\ cleanups' = cleanups + 1
    /\ UNCHANGED << analyzerVars, managerVars, fixedVars, storageVars, running,
                    consecutive_errors, alerts, now, last_tick, acq_run,
                    shadow_errors, shadow_escalations, escalations,
                    stop_requested, tick_log >>

\* The state after the constructors: VitalSignsAnalyzer.__init__,
\* AlertManager.__init__, DataHandler.__init__, EdgePulseMonitor.__init__
Constructed ==
    /\ heart_rate_history = << >>
    /\ spo2_history = << >>
    /\ temp_history = << >>
    /\ last_alert_time = << >>
    /\ raw_alerts = << >>
    /\ returned = << >>
    /\ readings = << >>
    /\ prev_alert_time = << >>
    /\ call_time = 0
    /\ emitted = [before |-> {}, all |-> {}]
    /\ cleared = << >>
    /\ alert_history = << >>
    /\ attempted = {}
    /\ results = [ch \in Channels |-> FALSE]
    /\ calls = [ch \in Channels |-> 0]
    /\ outcome = [ch \in Channels |-> FALSE]
    /\ dispatched = << >>
    /\ db_readings = << >>
    /\ db_alerts = << >>
    /\ running = FALSE
    /\ pc = "idle"
    /\ consecutive_errors = 0
    /\ alerts = << >>
    /\ now = 0
    /\ ingested = [heart_rate |-> << >>, spo2 |-> << >>, temperature |-> << >>]
    /\ last_tick = TickRecord("none", 0, FALSE)
    /\ acq_run = 0
    /\ shadow_errors = 0
    /\ shadow_escalations = 0
    /\ escalations = 0
    /\ stop_requested = FALSE
    /\ save_failures = 0
    /\ tick_log = TickIdle
    /\ cleanups = 0
    /\ led = "off"
    /\ read_result = NotCalled
    /\ response = [op |-> "none", arg |-> << >>, value |-> << >>]

\* main(): the monitor is built from the configuration; AlertManager gets no
\* indicators there.
Init ==
    /\ Constructed
    /\ thresholds = DefaultThresholds
    /\ email_enabled = TRUE
    /\ sms_enabled = TRUE
    /\ indicators = FALSE

Next ==
    \/ Start
    \/ LoopTest
    \/ \E r \in LoopReadings, ok \in BOOLEAN : ReadSuccess(r, ok)
    \/ \E transport \in LoopTransports, ok \in BOOLEAN : DispatchAlert(transport, ok)
    \/ FinishSuccess
    \/ \E transport \in LoopTransports : ReadFailure(transport)
    \/ ReadRaises
    \/ \E d \in LoopDeltas : Sleep(d)
    \/ Stop
    \/ Cleanup

Spec == Init /\ [][Next]_vars

\* Progress of the loop.  The interval between ticks is fixed, as
\* measurement_interval is; LoopStep is what the thread of start() does by
\* itself: every call of a tick returns, the sleep ends, cleanup returns.
\* stop() is the environment's and may never come.
LiveDeltas == {100}

LoopStep ==
    \/ LoopTest
    \/ \E r \in LoopReadings, ok \in BOOLEAN : ReadSuccess(r, ok)
    \/ \E transport \in LoopTransports, ok \in BOOLEAN : DispatchAlert(transport, ok)
    \/ FinishSuccess
    \/ \E transport \in LoopTransports : ReadFailure(transport)
    \/ ReadRaises
    \/ \E d \in LiveDeltas : Sleep(d)
    \/ Cleanup

NextLive ==
    \/ Start
    \/ LoopStep
    \/ Stop

SpecLive == Init /\ [][NextLive]_vars /\ WF_vars(LoopStep)

(***************************************************************************)
(* The components on their own: each specification below builds the        *)
(* objects as their constructors do and calls one component's operations   *)
(* with inputs drawn from bounded sets.                                    *)
(***************************************************************************)
loopState == << storageVars, loopVars >>

\* The default configuration, with every channel enabled.
DefaultConfig ==
    /\ thresholds = DefaultThresholds
    /\ email_enabled = TRUE
    /\ sms_enabled = TRUE
    /\ indicators = TRUE

\* ---- the cooldown filter: _apply_cooldown called on lists of events ----
MaxClock       == 601    \* the clock at which the runs explored end
MaxListLen     == 2      \* events in one list
CooldownDeltas == {299, 300, 301}

CooldownEvents(at) ==
    { Alert("heart_rate", "warning", "min", 45, at),
      Alert("heart_rate", "critical", "critical_min", 35, at) }

EventLists(at) ==
    UNION { [1..n -> CooldownEvents(at)] : n \in 0..MaxListLen }

FilterCall(list) ==
    /\ Filter(list)
    /\ UNCHANGED << fixedVars, managerVars, loopState, now >>

AdvanceClock(d) ==
    /\ now + d <= MaxClock
    /\ now' = now + d
    /\ UNCHANGED << fixedVars, analyzerVars, managerVars, loopState >>

InitCooldown == Constructed /\ DefaultConfig

NextCooldown ==
    \/ \E list \in EventLists(now) : FilterCall(list)
    \/ \E d \in CooldownDeltas : AdvanceClock(d)

SpecCooldown == InitCooldown /\ [][NextCooldown]_vars

\* ---- the classifier: analyze called under configured thresholds ----
MaxClassifyCalls == 1    \* values a window holds in the runs explored

ThresholdNames == {"critical_min", "min", "max", "critical_max"}
HeartRateLevels   == << 40, 60, 100, 150 >>
Spo2Levels        == << 85, 90, 95, 98 >>
TemperatureLevels == << 350, 361, 378, 390 >>

\* A configuration: each bound of each vital at one of four levels, in any
\* order (the warning bounds need not lie inside the critical ones).
ThresholdsAt(q) ==
    [ heart_rate  |-> [n \in ThresholdNames |-> HeartRateLevels[q[n]]],
      spo2        |-> [n \in {"min", "critical_min"} |-> Spo2Levels[q[n]]],
      temperature |-> [n \in ThresholdNames |-> TemperatureLevels[q[n]]] ]

\* The orders explored: the four bounds at four different levels in any
\* order, and every order with critical_min <= min <= max <= critical_max.
BoundOrders ==
    { q \in [ThresholdNames -> 1..4] :
        \/ Cardinality({q[n] : n \in ThresholdNames}) = 4
        \/ (q.critical_min <= q.min /\ q.min <= q.max /\ q.max <= q.critical_max) }

ThresholdChoices == { ThresholdsAt(q) : q \in BoundOrders }

NominalReading ==
    [heart_rate |-> 75, spo2 |-> 96, temperature |-> 368, temperature_unit |-> "C"]

HeartRateProbes   == {39, 40, 41, 59, 60, 61, 100, 101, 150, 151}
Spo2Probes        == {84, 85, 86, 89, 90, 94, 95, 98}
TemperatureProbes == {349, 350, 351, 360, 361, 378, 379, 384, 385, 386, 390, 391}
\* 95.0 F = 35.0 C, 100.4 F = 38.0 C, 102.3 F = 39.06 C
FahrenheitProbes  == {950, 1004, 1023}

ClassifyReadings ==
    { [NominalReading EXCEPT !.heart_rate = v] : v \in HeartRateProbes }
      \cup { [NominalReading EXCEPT !.spo2 = v] : v \in Spo2Probes }
      \cup { [NominalReading EXCEPT !.temperature = v] : v \in TemperatureProbes }
      \cup { [NominalReading EXCEPT !.temperature = v, !.temperature_unit = "F"] :
                v \in FahrenheitProbes }
      \cup { [heart_rate |-> 39], [temperature |-> 391] }

Longest(ing) ==
    IF Len(ing.heart_rate) >= Len(ing.spo2) /\ Len(ing.heart_rate) >= Len(ing.temperature)
      THEN Len(ing.heart_rate)
    ELSE IF Len(ing.spo2) >= Len(ing.temperature) THEN Len(ing.spo2)
    ELSE Len(ing.temperature)

ClassifyCall(r) ==
    /\ Longest(ingested) < MaxClassifyCalls
    /\ Analyze(r)
    /\ UNCHANGED << fixedVars, managerVars, loopState, now >>

ResetCall ==
    /\ ResetHistory
    /\ UNCHANGED << fixedVars, managerVars, loopState, now >>

InitClassify ==
    /\ Constructed
    /\ thresholds \in ThresholdChoices
    /\ email_enabled = TRUE
    /\ sms_enabled = TRUE
    /\ indicators = TRUE

NextClassify ==
    \/ \E r \in ClassifyReadings : ClassifyCall(r)
    \/ ResetCall

SpecClassify == InitClassify /\ [][NextClassify]_vars

\* ---- the rolling windows: analyze called on a long run of readings ----
MaxIngest == 100    \* values ingested for one vital

\* The n-th reading of the run: every value differs from the one before.
RampReading(shape) ==
    IF shape = "all"
      THEN [ heart_rate       |-> 40 + Len(ingested.heart_rate),
             spo2             |-> 70 + (Len(ingested.spo2) % 31),
             temperature      |-> 300 + Len(ingested.temperature),
             temperature_unit |-> "C" ]
      ELSE [ heart_rate |-> 40 + Len(ingested.heart_rate) ]

WindowCall(shape) ==
    /\ Len(ingested.heart_rate) < MaxIngest
    /\ Analyze(RampReading(shape))
    /\ UNCHANGED << fixedVars, managerVars, loopState, now >>

InitWindow == Constructed /\ DefaultConfig

NextWindow == \E shape \in {"all", "heart_rate"} : WindowCall(shape)

SpecWindow == InitWindow /\ [][NextWindow]_vars

\* ---- the trend detector: analyze called on short runs of readings ----
MaxSamples == 11    \* readings of one run

\* Against a window of the first reading, the second moves the mean of the
\* heart rate by exactly 20 and that of the temperature by exactly 0.5, the
\* third that of the SpO2 by exactly 3.
TrendReadings ==
    { [heart_rate |-> 60, spo2 |-> 99, temperature |-> 362, temperature_unit |-> "C"],
      [heart_rate |-> 80, spo2 |-> 95, temperature |-> 367, temperature_unit |-> "C"],
      [heart_rate |-> 81, spo2 |-> 96, temperature |-> 368, temperature_unit |-> "C"] }

TrendCall(r) ==
    /\ Len(ingested.heart_rate) < MaxSamples
    /\ Analyze(r)
    /\ UNCHANGED << fixedVars, managerVars, loopState, now >>

InitTrend == Constructed /\ DefaultConfig

NextTrend == \E r \in TrendReadings : TrendCall(r)

SpecTrend == InitTrend /\ [][NextTrend]_vars

\* ---- the dispatcher: send_alert called on events of every severity ----
MaxSends == 2    \* entries of the history in the runs explored

DispatchEvents ==
    { Alert(t, sev, "none", 0, 0) : t \in {"heart_rate", "test"}, sev \in Severities }

SendCall(alert, transport) ==
    /\ Len(alert_history) < MaxSends
    /\ SendAlert(alert, transport)
    /\ UNCHANGED << fixedVars, analyzerVars, loopState, now >>

ClearCall ==
    /\ ClearHistory
    /\ UNCHANGED << fixedVars, analyzerVars, loopState, now >>

InitDispatch ==
    /\ Constructed
    /\ thresholds = DefaultThresholds
    /\ email_enabled \in BOOLEAN
    /\ sms_enabled \in BOOLEAN
    /\ indicators \in BOOLEAN

NextDispatch ==
    \/ \E alert \in DispatchEvents, transport \in Transports : SendCall(alert, transport)
    \/ ClearCall

SpecDispatch == InitDispatch /\ [][NextDispatch]_vars

\* ---- the history: get_alert_history called between send_alert calls ----
MaxRecent == 3    \* entries of the history in the runs explored

\* s[-count:]: the slice starts count places before the end, at the front
\* when the list is shorter, and at index 0 when count is 0.
SliceFromEnd(s, count) ==
    IF count = 0 THEN s
    ELSE IF count > 0 THEN LastN(s, count)
    ELSE SubSeq(s, (IF 0 - count < Len(s) THEN 0 - count ELSE Len(s)) + 1, Len(s))

\* get_alert_history
GetAlertHistory(count) ==
    /\ response' = [op |-> "get_alert_history", arg |-> count,
                    value |-> SliceFromEnd(alert_history, count)]
    /\ UNCHANGED managerVars

RecentEvents ==
    { Alert("heart_rate", "warning", "none", 0, 0),
      Alert("spo2", "critical", "none", 0, 0) }

\* The counts asked for: none, fewer than, as many as and more than the
\* history holds, and the default.
Counts == {0, 1, 2, 3, 10}

RecentSendCall(alert, transport) ==
    /\ Len(alert_history) < MaxRecent
    /\ SendAlert(alert, transport)
    /\ response' = [op |-> "send_alert", arg |-> alert, value |-> results']
    /\ UNCHANGED << configVars, sensorVars, analyzerVars, loopState, now >>

GetAlertHistoryCall(count) ==
    /\ GetAlertHistory(count)
    /\ UNCHANGED << configVars, sensorVars, analyzerVars, loopState, now >>

InitRecent == Constructed /\ DefaultConfig

NextRecent ==
    \/ \E alert \in RecentEvents, transport \in LoopTransports :
          RecentSendCall(alert, transport)
    \/ \E count \in Counts : GetAlertHistoryCall(count)

SpecRecent == InitRecent /\ [][NextRecent]_vars

\* ---- acquisition: read_all called on what the sensors produce ----
ComputedHeartRates == {NoneValue, 299, 300, 755, 2500, 2501}
ComputedSpo2s     == {NoneValue, 699, 700, 975, 1000, 1001}
ProbeTemperatures == {NoneValue, 2999, 3000, 3684, 4200, 4201}

ReadAllCall(heart_rate, spo2, temp_celsius, led_ok, handler_ok) ==
    /\ ReadAll(heart_rate, spo2, temp_celsius, led_ok, handler_ok)
    /\ UNCHANGED << configVars, analyzerVars, managerVars, loopState, now,
                    response >>

InitAcquire == Constructed /\ DefaultConfig

NextAcquire ==
    \/ \E heart_rate \in ComputedHeartRates, spo2 \in ComputedSpo2s,
          temp_celsius \in ProbeTemperatures, led_ok \in BOOLEAN, handler_ok \in BOOLEAN :
          ReadAllCall(heart_rate, spo2, temp_celsius, led_ok, handler_ok)
    \/ \E d \in CooldownDeltas : AdvanceClock(d)

SpecAcquire == InitAcquire /\ [][NextAcquire]_vars

\* ---- event order: an anomaly that sets in after five normal readings ----
MaxOrderCalls == 10    \* readings of one run

SteadyReading ==
    [heart_rate |-> 62, spo2 |-> 99, temperature |-> 365, temperature_unit |-> "C"]

\* Every vital beyond its warning bound, and the heart rate alone.
AnomalousReadings ==
    { [heart_rate |-> 120, spo2 |-> 93, temperature |-> 380, temperature_unit |-> "C"],
      [heart_rate |-> 120, spo2 |-> 99, temperature |-> 365, temperature_unit |-> "C"] }

OrderCall(r) ==
    /\ Len(ingested.heart_rate) < MaxOrderCalls
    /\ Len(ingested.heart_rate) < TrendHalf => r = SteadyReading
    /\ Analyze(r)
    /\ UNCHANGED << fixedVars, managerVars, loopState, now >>

InitOrder == Constructed /\ DefaultConfig

NextOrder ==
    \/ \E r \in AnomalousReadings \cup {SteadyReading} : OrderCall(r)
    \/ \E d \in CooldownDeltas : AdvanceClock(d)

SpecOrder == InitOrder /\ [][NextOrder]_vars

\* ---- reset: analyze and reset_history called in any order ----
MaxResetWindow == 2    \* values a window holds in the runs explored

ResetReadings ==
    { [heart_rate |-> 75, spo2 |-> 98, temperature |-> 368, temperature_unit |-> "C"],
      [heart_rate |-> 45, spo2 |-> 88, temperature |-> 368, temperature_unit |-> "C"] }

AnalyzeCall(r) ==
    /\ Longest(ingested) < MaxResetWindow
    /\ Analyze(r)
    /\ UNCHANGED << fixedVars, managerVars, loopState, now >>

InitReset == Constructed /\ DefaultConfig

NextReset ==
    \/ \E r \in ResetReadings : AnalyzeCall(r)
    \/ ResetCall
    \/ \E d \in CooldownDeltas : AdvanceClock(d)

SpecReset == InitReset /\ [][NextReset]_vars

\* ---- the loop with queries between its steps ----
QueryHorizon == 100    \* the clock after which the loop is left where it is
QueryHours == {0, 24}

\* What the sensors give a query: a good sample, and no heart rate.
QueryHeartRates == {755, NoneValue}

Query ==
    \/ \E heart_rate \in QueryHeartRates, led_ok \in BOOLEAN, handler_ok \in BOOLEAN :
          \/ GetStatus(heart_rate, 975, 3684, led_ok, handler_ok)
          \/ GetCurrent(heart_rate, 975, 3684, led_ok, handler_ok)
    \/ \E hours \in QueryHours :
          \/ GetHistory(hours)
          \/ GetRecentAlerts(hours)
          \/ GetStatistics(hours)

\* The steps of the loop up to the horizon, and queries at any time.
NextQueries ==
    \/ now <= QueryHorizon /\ NextLive
    \/ Query

SpecQueries == Init /\ [][NextQueries]_vars

\* ---- storage: saves and queries of the DataHandler ----
MaxRows == 2    \* rows a table holds in the runs explored
StorageDeltas == {300}

StoredReadings ==
    { [heart_rate |-> 75, spo2 |-> 98, temperature |-> 368, temperature_unit |-> "C"],
      [heart_rate |-> 120, spo2 |-> 98, temperature |-> 368] }

\* Alerts as a caller of save_alert builds them: the timestamp is the
\* alert's own.
StoredAlerts ==
    { Alert("heart_rate", "warning", "max", 120, at) : at \in {0, 300} }
      \cup { Alert("spo2", "critical", "critical_min", 88, now) }

Limits == {0 - 1, 0, 1, 2, 3}

SaveReadingCall(rdg, ok) ==
    /\ Len(db_readings) < MaxRows
    /\ SaveReading(rdg, ok)
    /\ response' = [op |-> "save_reading", arg |-> rdg, value |-> ok]
    /\ UNCHANGED << configVars, sensorVars, analyzerVars, managerVars, loopVars, now >>

SaveAlertCall(alert, ok) ==
    /\ Len(db_alerts) < MaxRows
    /\ SaveAlert(alert, ok)
    /\ response' = [op |-> "save_alert", arg |-> alert, value |-> ok]
    /\ UNCHANGED << configVars, sensorVars, analyzerVars, managerVars, loopVars, now >>

GetReadingsCall(limit) ==
    /\ GetReadings(NoneValue, limit)
    /\ UNCHANGED << configVars, analyzerVars, managerVars, loopVars, now >>

GetAlertsCall(limit) ==
    /\ GetAlerts(NoneValue, limit)
    /\ UNCHANGED << configVars, analyzerVars, managerVars, loopVars, now >>

InitStorage == Constructed /\ DefaultConfig

NextStorage ==
    \/ \E rdg \in StoredReadings, ok \in BOOLEAN : SaveReadingCall(rdg, ok)
    \/ \E alert \in StoredAlerts, ok \in BOOLEAN : SaveAlertCall(alert, ok)
    \/ \E limit \in Limits : GetReadingsCall(limit)
    \/ \E limit \in Limits : GetAlertsCall(limit)
    \/ \E d \in StorageDeltas : AdvanceClock(d)

SpecStorage == InitStorage /\ [][NextStorage]_vars

\* ---- malformed readings: analyze called with a vital that is None ----
MaxMalformedCalls == 11    \* readings of one run

\* A reading with a low heart rate and a critically low SpO2, and the same
\* reading with the heart rate present and None.
MalformedReadings ==
    { [heart_rate |-> 45, spo2 |-> 88, temperature |-> 368, temperature_unit |-> "C"],
      [heart_rate |-> NoneValue, spo2 |-> 88, temperature |-> 368,
       temperature_unit |-> "C"] }

MalformedCall(r) ==
    /\ Len(ingested.heart_rate) < MaxMalformedCalls
    /\ Analyze(r)
    /\ UNCHANGED << fixedVars, managerVars, loopState, now >>

InitMalformed == Constructed /\ DefaultConfig

NextMalformed == \E r \in MalformedReadings : MalformedCall(r)

SpecMalformed == InitMalformed /\ [][NextMalformed]_vars

\* ---- the alert history at capacity: send_alert called on a long stream ----
MaxDispatched == 1002    \* events of one stream

\* The n-th event of the stream: numbered, the severities in rotation; of
\* an event send_alert reads 'type' and 'severity' only.
StreamEvent(n) ==
    [type |-> "test",
     severity |-> CASE n % 3 = 0 -> "critical" [] n % 3 = 1 -> "warning"
                    [] OTHER -> "info",
     value |-> n]

StreamCall(transport) ==
    /\ Len(dispatched) < MaxDispatched
    /\ SendAlert(StreamEvent(Len(dispatched) + 1), transport)
    /\ UNCHANGED << fixedVars, analyzerVars, loopState, now >>

\* Every channel enabled, or every channel disabled.
InitHistory ==
    /\ Constructed
    /\ thresholds = DefaultThresholds
    /\ \E b \in BOOLEAN : email_enabled = b /\ sms_enabled = b /\ indicators = b

NextHistory == \E transport \in LoopTransports : StreamCall(transport)

SpecHistory == InitHistory /\ [][NextHistory]_vars

(***************************************************************************)
(* Claims about the monitoring loop (specification Spec).                  *)
(***************************************************************************)

\* C2: a system_error alert is dispatched by a tick exactly when that tick is
\* an acquisition failure and the number of consecutive acquisition failures
\* since the last successful tick or the last escalation reaches 5; fewer
\* than 5 acquisition failures in a row never escalate.
C2_EscalatesExactlyAtFifthFailure ==
    last_tick.escalated <=>
        (last_tick.kind = "failure" /\ last_tick.run = MaxConsecutiveErrors)

\* C8 as stated: no two events with the same (vital, severity) key, the
\* synthesized system_error included, are handed to the dispatcher less than
\* 300 s apart.
C8_NoTwoDispatchesWithinCooldown ==
    \A i, j \in 1..Len(alert_history) :
        (i < j /\ AlertKey(alert_history[i]) = AlertKey(alert_history[j]))
            => alert_history[j].timestamp - alert_history[i].timestamp >= AlertCooldown

\* C8 as amended: every event the analyzer produced that is handed to the
\* dispatcher has passed the cooldown filter, so no two such events with the
\* same key are dispatched less than 300 s apart; the synthesized
\* system_error event is sent without passing the filter.
C8_AnalyzerDispatchesRespectCooldown ==
    \A i, j \in 1..Len(alert_history) :
        ( /\ i < j
          /\ alert_history[i].type # "system_error"
          /\ AlertKey(alert_history[i]) = AlertKey(alert_history[j]) )
            => alert_history[j].timestamp - alert_history[i].timestamp >= AlertCooldown

\* An analyzer event dispatched a second time, once its window had elapsed.
C8_Witness ==
    \E i, j \in 1..Len(alert_history) :
        /\ i < j
        /\ alert_history[i].type = "heart_rate"
        /\ AlertKey(alert_history[i]) = AlertKey(alert_history[j])

\* C9: an exception tick counts as an acquisition-failure tick: the counter
\* and the number of escalations equal those of the run in which every
\* failing tick is an acquisition failure.
C9_ExceptionTickEqualsFailureTick ==
    /\ consecutive_errors = shadow_errors
    /\ escalations = shadow_escalations

\* C10: the loop is left (cleanup is reached) only after stop() was called,
\* whatever failed in the ticks before.
C10_LoopLeftOnlyOnStop ==
    pc \in {"cleanup", "stopped"} => stop_requested

\* The loop about to begin a tick, after an escalation of acquisition
\* failures, a failed insert, a failed transport and an exception tick.
C10_Witness ==
    /\ pc = "loop"
    /\ running
    /\ ~stop_requested
    /\ escalations > 0
    /\ save_failures > 0
    /\ db_alerts # << >>
    /\ \E i \in 1..Len(alert_history) : alert_history[i].type = "heart_rate"
    /\ ~results["email"]
    /\ last_tick.kind = "exception"

(***************************************************************************)
(* Claims about the cooldown filter (specification SpecCooldown).          *)
(***************************************************************************)
\* The key had no recorded time, or the window had elapsed, when the last
\* filter call began.
Fresh(key) ==
    \/ key \notin DOMAIN prev_alert_time
    \/ call_time - prev_alert_time[key] >= 300

\* The events of the last list that the rule lets through: the key is fresh
\* and no earlier event of the list has the key.
Survivors ==
    { i \in 1..Len(raw_alerts) :
        /\ Fresh(AlertKey(raw_alerts[i]))
        /\ \A j \in 1..(i - 1) : AlertKey(raw_alerts[j]) # AlertKey(raw_alerts[i]) }

\* C1: an event survives a filter call if and only if its key has no recorded
\* last-emitted time or call time - last emitted >= 300 s (an emission earlier
\* in the same call counts); the survivors keep their order, each survivor's
\* key is set to the call time and no other key changes.
C1_CooldownRule ==
    /\ Len(returned) = Cardinality(Survivors)
    /\ \A i \in Survivors :
          returned[Cardinality({j \in Survivors : j <= i})] = raw_alerts[i]
    /\ \A i \in Survivors : /\ AlertKey(raw_alerts[i]) \in DOMAIN last_alert_time
                           /\ last_alert_time[AlertKey(raw_alerts[i])] = call_time
    /\ \A k \in DOMAIN last_alert_time :
          (\A i \in Survivors : AlertKey(raw_alerts[i]) # k)
              => (k \in DOMAIN prev_alert_time /\ last_alert_time[k] = prev_alert_time[k])

\* An event arriving exactly 300 s after its key was emitted has survived,
\* and the second event of the same key in the list was dropped.
C1_Witness ==
    /\ Len(raw_alerts) = 2
    /\ AlertKey(raw_alerts[1]) = AlertKey(raw_alerts[2])
    /\ AlertKey(raw_alerts[1]) \in DOMAIN prev_alert_time
    /\ call_time - prev_alert_time[AlertKey(raw_alerts[1])] = AlertCooldown
    /\ returned = << raw_alerts[1] >>
    /\ last_alert_time[AlertKey(raw_alerts[1])] = call_time

(***************************************************************************)
(* Claims about the dispatcher (specification SpecDispatch).               *)
(***************************************************************************)
LastSent == alert_history[Len(alert_history)]

Seen(v) ==
    IF v = "temperature"
      THEN Celsius90(readings.temperature, UnitOf(readings))
      ELSE readings[v]

BoundOf(v, name) ==
    IF v = "temperature" THEN Bound90(thresholds[v][name]) ELSE thresholds[v][name]

RulesOf(v) ==
    IF v = "spo2" THEN << "critical_min", "min" >>
    ELSE << "critical_min", "critical_max", "min", "max" >>

Trips(v, name) ==
    IF name \in {"critical_min", "min"} THEN Seen(v) < BoundOf(v, name)
    ELSE Seen(v) > BoundOf(v, name)

\* The first rule of the vital, in the order of precedence, that the value
\* trips (no element when it trips none).
FirstTripped(v) ==
    { k \in 1..Len(RulesOf(v)) :
        /\ Trips(v, RulesOf(v)[k])
        /\ \A j \in 1..(k - 1) : ~Trips(v, RulesOf(v)[j]) }

EventsOf(type) == { i \in 1..Len(raw_alerts) : raw_alerts[i].type = type }

\* C4: one analyze call emits at most one threshold event for a vital, the one
\* of the first rule tripped in the order critical_min, critical_max, min,
\* max; a critical bound gives a critical event and never a warning beside it,
\* whatever the order of the configured bounds.
C4_FirstMatchWins ==
    \A v \in Vitals :
        Has(readings, v) =>
            /\ Cardinality(EventsOf(v)) <= 1
            /\ (EventsOf(v) = {}) <=> (FirstTripped(v) = {})
            /\ \A i \in EventsOf(v), k \in FirstTripped(v) :
                  /\ raw_alerts[i].threshold = RulesOf(v)[k]
                  /\ RulesOf(v)[k] \in {"critical_min", "critical_max"}
                        => raw_alerts[i].severity = "critical"
                  /\ RulesOf(v)[k] = "min" => raw_alerts[i].severity = "warning"
                  /\ (RulesOf(v)[k] = "max" /\ v = "heart_rate")
                        => raw_alerts[i].severity = "warning"

\* A heart rate below both min and a critical_min configured above min: one
\* critical event.
C4_Witness ==
    /\ Has(readings, "heart_rate")
    /\ thresholds.heart_rate.min < thresholds.heart_rate.critical_min
    /\ readings.heart_rate < thresholds.heart_rate.min
    /\ \E i \in EventsOf("heart_rate") :
          raw_alerts[i].severity = "critical" /\ raw_alerts[i].threshold = "critical_min"

Ordered(v) ==
    IF v = "spo2" THEN thresholds[v].critical_min <= thresholds[v].min
    ELSE /\ thresholds[v].critical_min <= thresholds[v].min
         /\ thresholds[v].min <= thresholds[v].max
         /\ thresholds[v].max <= thresholds[v].critical_max

InRange(v) ==
    /\ BoundOf(v, "min") <= Seen(v)
    /\ v # "spo2" => Seen(v) <= BoundOf(v, "max")

\* C5: under ordered bounds a value with min <= v <= max gives no threshold
\* event for its vital, and a value equal to a bound gives no event for that
\* bound.
C5_StrictBounds ==
    \A v \in Vitals :
        Has(readings, v) =>
            /\ (Ordered(v) /\ InRange(v)) => EventsOf(v) = {}
            /\ \A k \in 1..Len(RulesOf(v)) :
                  Seen(v) = BoundOf(v, RulesOf(v)[k])
                      => \A i \in EventsOf(v) : raw_alerts[i].threshold # RulesOf(v)[k]

\* A heart rate equal to max, under strictly ordered bounds, gave no event.
C5_Witness ==
    /\ Has(readings, "heart_rate")
    /\ thresholds.heart_rate.critical_min < thresholds.heart_rate.min
    /\ thresholds.heart_rate.min < thresholds.heart_rate.max
    /\ thresholds.heart_rate.max < thresholds.heart_rate.critical_max
    /\ readings.heart_rate = thresholds.heart_rate.max
    /\ heart_rate_history = << readings.heart_rate >>
    /\ EventsOf("heart_rate") = {}

(***************************************************************************)
(* Claims about the rolling windows (specification SpecWindow).            *)
(***************************************************************************)
\* The most recent min(n, 60) of the values, oldest first.
MostRecent(all) ==
    IF Len(all) <= 60 THEN all ELSE [i \in 1..60 |-> all[Len(all) - 60 + i]]

\* C6: each window holds at most 60 values, the most recent min(n, 60) values
\* ingested for its vital, in insertion order.
C6_WindowHoldsLast60 ==
    /\ Len(heart_rate_history) <= 60
    /\ Len(spo2_history) <= 60
    /\ Len(temp_history) <= 60
    /\ heart_rate_history = MostRecent(ingested.heart_rate)
    /\ spo2_history = MostRecent(ingested.spo2)
    /\ temp_history = MostRecent(ingested.temperature)

\* After 100 insertions the window holds the last 60, the 41st first.
C6_Witness ==
    /\ Len(ingested.heart_rate) = 100
    /\ Len(heart_rate_history) = 60
    /\ heart_rate_history[1] = ingested.heart_rate[41]
    /\ heart_rate_history[60] = ingested.heart_rate[100]
    /\ Len(ingested.spo2) > 60

(***************************************************************************)
(* Claims about the trend detector (specification SpecTrend).              *)
(***************************************************************************)
\* Five times the mean of the last five values, and of the five before them.
Recent5(w) ==
    w[Len(w)] + w[Len(w) - 1] + w[Len(w) - 2] + w[Len(w) - 3] + w[Len(w) - 4]
Older5(w) ==
    w[Len(w) - 5] + w[Len(w) - 6] + w[Len(w) - 7] + w[Len(w) - 8] + w[Len(w) - 9]

C11_CooperativeShutdown ==
    /\ [](pc \in {"cleanup", "stopped"} =>
            /\ ~tick_log.open
            /\ alerts = << >>
            /\ ~running)
    /\ [](cleanups > 0 => pc = "stopped")
    /\ [][ (running /\ ~running') =>
              /\ pc' = pc
              /\ alerts' = alerts
              /\ tick_log' = tick_log
              /\ cleanups' = cleanups
              /\ UNCHANGED << analyzerVars, managerVars, storageVars,
                              consecutive_errors >> ]_vars
    /\ [][ (pc # "tick" /\ pc' = "tick") => (pc = "loop" /\ running) ]_vars
    /\ [][ (pc # "cleanup" /\ pc' = "cleanup") => (pc = "loop" /\ ~running) ]_vars
    /\ [][ (tick_log.open /\ ~tick_log'.open) =>
              /\ alerts = << >>
              /\ last_tick.kind = "success" =>
                    /\ tick_log.sent = returned
                    /\ tick_log.saved = returned ]_vars

\* The flag was cleared while this tick was in progress, and the tick has
\* dispatched and saved both of its events and reached its sleep.
C11_Witness ==
    /\ pc = "sleep"
    /\ tick_log.open
    /\ ~running
    /\ stop_requested
    /\ Len(returned) = 2
    /\ tick_log.sent = returned
    /\ tick_log.saved = returned

\* C12: once stop() has been called while the loop runs, and every step of a
\* tick terminates, the loop reaches Stopped, and cleanup is executed exactly
\* once.
C12_StopLeadsToStopped ==
    /\ stop_requested ~> (pc = "stopped" /\ cleanups = 1)
    /\ [](cleanups <= 1)
    /\ [](pc = "stopped" => cleanups = 1)

\* Stopped after a stop() that arrived in a tick which had escalated.
C12_Witness ==
    /\ pc = "stopped"
    /\ stop_requested
    /\ cleanups = 1
    /\ escalations > 0
    /\ last_tick.kind = "failure"
    /\ last_tick.escalated

(***************************************************************************)
(* Further claims about the dispatcher (specification SpecDispatch).       *)
(***************************************************************************)
\* The channels the routing policy selects for the last event sent.
Selected ==
    CASE LastSent.severity = "critical" -> {"email", "sms", "local"}
      [] LastSent.severity = "warning"  -> {"email", "local"}
      [] OTHER                          -> {"local"}

ChannelReady(ch) ==
    CASE ch = "email" -> email_enabled
      [] ch = "sms"   -> sms_enabled
      [] ch = "local" -> indicators

\* C13: in one send_alert call every selected channel is attempted exactly
\* once whatever the other channels achieve, no other channel is attempted,
\* each channel's entry of the mapping returned is that channel's own outcome,
\* and the mapping covers the three channels also when all of them fail.
C13_ChannelsIndependent ==
    alert_history # << >> =>
        /\ DOMAIN results = Channels
        /\ \A ch \in Channels :
              /\ calls[ch] = IF ch \in Selected THEN 1 ELSE 0
              /\ results[ch] = (ch \in Selected /\ ChannelReady(ch) /\ outcome[ch])

\* A critical event whose e-mail failed: SMS and local were still attempted
\* and delivered.
C13_Witness ==
    /\ alert_history # << >>
    /\ LastSent.severity = "critical"
    /\ email_enabled /\ sms_enabled /\ indicators
    /\ ~outcome["email"]
    /\ calls = [ch \in Channels |-> 1]
    /\ results = [ch \in Channels |-> ch # "email"]

(***************************************************************************)
(* Claims about the alert history (specification SpecHistory).             *)
(***************************************************************************)
\* The most recent min(n, 1000) of the events, oldest first.
MostRecent1000(all) ==
    IF Len(all) <= 1000 THEN all ELSE [i \in 1..1000 |-> all[Len(all) - 1000 + i]]

\* C14: every send_alert call appends one entry whatever the channels
\* achieve, the history never holds more than 1000 entries and evicts the
\* oldest first: it is the most recent min(n, 1000) events sent, in order.
C14_HistoryHoldsLast1000 ==
    /\ Len(alert_history) <= 1000
    /\ alert_history = MostRecent1000(dispatched)
    /\ dispatched # << >> => alert_history[Len(alert_history)] = dispatched[Len(dispatched)]

\* 1002 events sent with every channel disabled: the history holds the last
\* 1000, the third one first.
C14_Witness ==
    /\ Len(dispatched) = 1002
    /\ Len(alert_history) = 1000
    /\ alert_history[1] = dispatched[3]
    /\ alert_history[1000] = dispatched[1002]
    /\ ~email_enabled /\ ~sms_enabled /\ ~indicators
    /\ \A ch \in Channels : ~results[ch]

(***************************************************************************)
(* Further claims about the cooldown filter (specification SpecCooldown).  *)
(***************************************************************************)
SameVitalAndSeverity(a, b) == a.type = b.type /\ a.severity = b.severity

\* The i-th event of the last list meets an event of its own vital and
\* severity: one returned less than 300 s before the call, or one earlier in
\* the list.
Blocked(i) ==
    \/ \E e \in emitted.before :
          /\ SameVitalAndSeverity(e, raw_alerts[i])
          /\ call_time - e.timestamp < 300
    \/ \E j \in 1..(i - 1) : SameVitalAndSeverity(raw_alerts[j], raw_alerts[i])

\* C15: whether an event survives depends only on the events of its own
\* (vital, severity): it is dropped exactly when one of them was returned less
\* than 300 s before or stands earlier in the list; events of another vital or
\* of another severity of the same vital never suppress it.
C15_TimersIndependentPerKey ==
    /\ Len(returned) = Cardinality({ i \in 1..Len(raw_alerts) : ~Blocked(i) })
    /\ \A i \in 1..Len(raw_alerts) :
          ~Blocked(i) => \E k \in 1..Len(returned) : returned[k] = raw_alerts[i]

\* A critical heart_rate event returned 299 s after a warning heart_rate
\* event was.
C15_Witness ==
    /\ \E e \in emitted.before :
          /\ e.type = "heart_rate" /\ e.severity = "warning"
          /\ call_time - e.timestamp = 299
    /\ \A e \in emitted.before : e.severity # "critical"
    /\ \E k \in 1..Len(returned) :
          returned[k].type = "heart_rate" /\ returned[k].severity = "critical"

(***************************************************************************)
(* Further claims about the classifier (specification SpecClassify).       *)
(***************************************************************************)
\* A Celsius temperature that reaches the last branch of the chain.
ReachesFeverBranch ==
    /\ Has(readings, "temperature")
    /\ UnitOf(readings) = "C"
    /\ ~(readings.temperature < thresholds.temperature.critical_min)
    /\ ~(readings.temperature > thresholds.temperature.critical_max)
    /\ ~(readings.temperature < thresholds.temperature.min)
    /\ readings.temperature > thresholds.temperature.max

\* C16: a Celsius temperature that reaches the warning max branch yields one
\* temperature event, critical when the value exceeds 38.5 and warning
\* otherwise; a value of exactly 38.5 is classified warning.
C16_FeverSeverity ==
    ReachesFeverBranch =>
        /\ Cardinality(EventsOf("temperature")) = 1
        /\ \A i \in EventsOf("temperature") :
              raw_alerts[i].severity =
                  IF readings.temperature > 385 THEN "critical" ELSE "warning"

(***************************************************************************)
(* Claims about one tick of the loop (specification Spec).                 *)
(***************************************************************************)
\* The tick in progress acquired a reading and has handled all its alerts.
SuccessfulTickDone == pc = "sleep" /\ tick_log.open /\ last_tick.kind = "success"

Elements(seq) == { seq[i] : i \in 1..Len(seq) }

\* The entries the tick added to the alert history, and the rows it added to
\* table alerts.
HistoryAdded == SubSeq(alert_history, tick_log.history_before + 1, Len(alert_history))
RowsAdded == SubSeq(db_alerts, tick_log.alerts_before + 1, Len(db_alerts))

\* C17: in a tick that acquired a reading, save_reading is called once, the
\* events handed to send_alert are exactly the events the cooldown filter
\* returned for that reading, each once and each then handed to save_alert, in
\* the order returned, and the counter is reset; an event the filter dropped is
\* neither sent, nor in the alert history, nor saved.
C17_SuccessfulTick ==
    /\ pc = "dispatch" => tick_log.sent \o alerts = returned
    /\ pc = "dispatch" => tick_log.saved = tick_log.sent
    /\ SuccessfulTickDone =>
          /\ tick_log.reading_saves = 1
          /\ tick_log.sent = returned
          /\ tick_log.saved = returned
          /\ consecutive_errors = 0
          /\ HistoryAdded = returned
          /\ Elements(RowsAdded) \subseteq Elements(returned)
          /\ \A i \in 1..Len(raw_alerts) :
                raw_alerts[i] \notin Elements(returned) =>
                    /\ raw_alerts[i] \notin Elements(tick_log.sent)
                    /\ raw_alerts[i] \notin Elements(HistoryAdded)
                    /\ raw_alerts[i] \notin Elements(tick_log.saved)
                    /\ raw_alerts[i] \notin Elements(RowsAdded)

\* A second abnormal reading inside the cooldown window: both of its events
\* were dropped and nothing was sent or saved in the tick, after a tick that
\* sent and saved two.
C17_Witness ==
    /\ SuccessfulTickDone
    /\ Len(raw_alerts) = 2
    /\ returned = << >>
    /\ tick_log.sent = << >>
    /\ tick_log.history_before = 2
    /\ Len(alert_history) = 2
    /\ Len(db_alerts) = 2
    /\ Len(db_readings) = 2

\* C18: every event the loop hands to send_alert is handed to save_alert in
\* the same tick: at the end of a tick the two lists are equal, for threshold
\* events, trend events and the system_error event alike.
C18_EverySentEventIsSaved ==
    (pc = "sleep" /\ tick_log.open) => tick_log.saved = tick_log.sent

\* C19: when save_reading or save_alert fails, the step still analyses the
\* reading, respectively sends the alert and goes on to the next one; the
\* tick dispatches every event the filter returned, the counter is not
\* incremented and the alert history gains nothing but those events.
C19_PersistenceFailureContained ==
    /\ []( (SuccessfulTickDone /\ tick_log.failed_saves > 0) =>
              /\ tick_log.sent = returned
              /\ HistoryAdded = returned
              /\ consecutive_errors = 0
              /\ last_tick.escalated = FALSE )
    /\ [][ save_failures' > save_failures =>
              /\ consecutive_errors' = consecutive_errors
              /\ escalations' = escalations
              /\ pc' = "dispatch"
              /\ pc = "tick" =>
                    /\ Len(ingested'.heart_rate) = Len(ingested.heart_rate) + 1
                    /\ alerts' = returned'
                    /\ alert_history' = alert_history
              /\ pc = "dispatch" =>
                    /\ alert_history' = Append(alert_history, Head(alerts))
                    /\ alerts' = Tail(alerts) ]_vars

\* The save of the first of two alerts failed: both were sent, the second
\* was saved, the counter is 0.
C19_Witness ==
    /\ SuccessfulTickDone
    /\ tick_log.failed_saves = 1
    /\ Len(returned) = 2
    /\ tick_log.sent = returned
    /\ HistoryAdded = returned
    /\ RowsAdded = << returned[2] >>
    /\ consecutive_errors = 0

(***************************************************************************)
(* Claims about malformed readings (specification SpecMalformed).          *)
(***************************************************************************)
Malformed(rdg) == \E k \in Vitals : Has(rdg, k) /\ rdg[k] = 0 - 999

AllNumbers(window) == \A i \in 1..Len(window) : window[i] # 0 - 999

\* The threshold events the classifier gives for the last reading.
ThresholdEvents ==
    AnalyzeHeartRate(readings, thresholds, call_time)
        \o AnalyzeSpo2(readings, thresholds, call_time)
        \o AnalyzeTemperature(readings, thresholds, call_time)

\* C20: a malformed reading is skipped: analyze returns no events, the
\* cooldown state is as before the call and the windows never take a value
\* of it, so that a later well-formed reading is classified as if the
\* malformed reading had never occurred.
C20_MalformedReadingSkipped ==
    /\ (readings # << >> /\ Malformed(readings)) =>
          /\ returned = << >>
          /\ last_alert_time = prev_alert_time
    /\ AllNumbers(heart_rate_history)
    /\ AllNumbers(spo2_history)
    /\ AllNumbers(temp_history)
    /\ (readings # << >> /\ ~Malformed(readings)) =>
          Elements(ThresholdEvents) \subseteq Elements(raw_alerts)

\* The part of C20 that does not depend on the windows: a malformed reading
\* returns no events and leaves the cooldown state alone.
C20_ReturnsNothing ==
    (readings # << >> /\ Malformed(readings)) =>
        /\ returned = << >>
        /\ last_alert_time = prev_alert_time

\* The windows taken apart, a well-formed reading is classified.
C20_LaterReadingClassified ==
    (readings # << >> /\ ~Malformed(readings)) =>
        Elements(ThresholdEvents) \subseteq Elements(raw_alerts)

(***************************************************************************)
(* Claims about acquisition (specification SpecAcquire).                   *)
(***************************************************************************)
ReadingKeys == {"heart_rate", "spo2", "temperature", "temperature_unit", "timestamp"}

Complete(value) == DOMAIN value = ReadingKeys

Reverse(seq) == [i \in 1..Len(seq) |-> seq[Len(seq) + 1 - i]]

FirstN(seq, n) == SubSeq(seq, 1, IF n < Len(seq) THEN n ELSE Len(seq))

\* The table the last query read, when the last operation was a query.
Queried ==
    IF response.op = "get_readings" THEN db_readings ELSE db_alerts

IsQuery == response.op \in {"get_readings", "get_alerts"}

\* How many rows a query with this limit is to return.
Wanted ==
    IF response.arg < 0 \/ response.arg > Len(Queried) THEN Len(Queried)
    ELSE response.arg

\* The rows were saved in the order of their timestamps.
SavedInTimeOrder(rows) ==
    \A i, j \in 1..Len(rows) : i < j => rows[i].timestamp <= rows[j].timestamp

coreState == << heart_rate_history, spo2_history, temp_history, last_alert_time,
                alert_history, consecutive_errors >>

\* C22: a query (get_status or a route of the dashboard) taken at any point
\* between the steps of the loop leaves the windows, the cooldown state, the
\* alert history and the consecutive-failure counter as they are, and with
\* them the tables and the position of the loop, so that the run continues
\* as it would have without the query.
C22_QueriesLeaveCoreState ==
    [][ Query => UNCHANGED << coreState, storageVars, loopVars, analyzerVars,
                              managerVars, now >> ]_vars

\* A query answered in the middle of a tick: one alert of the tick has been
\* sent and saved, the other is still to be handled, and GET /api/alerts has
\* returned the row of the first.
C22_Witness ==
    /\ pc = "dispatch"
    /\ Len(alerts) = 1
    /\ Len(heart_rate_history) = 1
    /\ last_alert_time # << >>
    /\ Len(alert_history) = 1
    /\ response.op = "api_alerts"
    /\ response.value = << alert_history[1] >>
    /\ read_result.kind = "returned" /\ read_result.value # None

(***************************************************************************)
(* Claims about reset_history (specification SpecReset).                   *)
(***************************************************************************)
\* C23: reset_history leaves the three windows and the cooldown state as the
\* constructor makes them (empty), and the call of analyze that follows it
\* returns every event it classified, whatever was emitted before the reset
\* and however recently.
C23_ResetClearsAllKeys ==
    /\ [][ ResetCall =>
              /\ heart_rate_history' = << >>
              /\ spo2_history' = << >>
              /\ temp_history' = << >>
              /\ last_alert_time' = << >> ]_vars
    /\ [][ (\E r \in ResetReadings : AnalyzeCall(r)) =>
              (Len(heart_rate_history) = 0 /\ cleared # << >> =>
                  /\ returned' = raw_alerts'
                  /\ \A i \in 1..Len(returned') :
                        last_alert_time'[AlertKey(returned'[i])] = now) ]_vars

\* An event is returned 299 s after an event of its key was, a reset having
\* come between the two.
C23_Witness ==
    /\ Len(heart_rate_history) = 1
    /\ prev_alert_time = << >>
    /\ \E i \in 1..Len(returned) :
          /\ AlertKey(returned[i]) \in DOMAIN cleared
          /\ returned[i].timestamp = call_time
          /\ call_time - cleared[AlertKey(returned[i])] = 299

(***************************************************************************)
(* Claims about dropped events (specification SpecCooldown).               *)
(***************************************************************************)
\* The i-th event of the last list was inside the window of its key when the
\* call began.
InsideWindow(i) ==
    /\ AlertKey(raw_alerts[i]) \in DOMAIN prev_alert_time
    /\ call_time - prev_alert_time[AlertKey(raw_alerts[i])] < AlertCooldown

\* C25: an event dropped inside the window of its key leaves the time of the
\* key where it was, so the window runs from the last emission and not from
\* the last occurrence: whenever an event of a key occurs, an event of that
\* key has been returned less than 300 s before or is returned now, however
\* often the key occurred in between.
C25_DroppedEventKeepsTime ==
    /\ \A i \in 1..Len(raw_alerts) :
          InsideWindow(i) =>
              /\ last_alert_time[AlertKey(raw_alerts[i])]
                     = prev_alert_time[AlertKey(raw_alerts[i])]
              /\ \A k \in 1..Len(returned) :
                     AlertKey(returned[k]) # AlertKey(raw_alerts[i])
    /\ \A i \in 1..Len(raw_alerts) :
          \E e \in emitted.all :
              /\ AlertKey(e) = AlertKey(raw_alerts[i])
              /\ call_time - e.timestamp < AlertCooldown

\* An event that occurred 299 s after the emission of its key was dropped and
\* the time of the key is still that of the emission.
C25_Witness ==
    /\ Len(raw_alerts) = 1
    /\ returned = << >>
    /\ InsideWindow(1)
    /\ call_time - prev_alert_time[AlertKey(raw_alerts[1])] = 299
    /\ last_alert_time = prev_alert_time
    /\ \E e \in emitted.all :
          /\ AlertKey(e) = AlertKey(raw_alerts[1])
          /\ e.timestamp = call_time - 299

(***************************************************************************)
(* Claims about the order of the events (specification SpecOrder).         *)
(***************************************************************************)
\* The place of an event type in the order analyze produces the events in.
Rank(type) ==
    CASE type = "heart_rate"        -> 1
      [] type = "spo2"              -> 2
      [] type = "temperature"       -> 3
      [] type = "heart_rate_trend"  -> 4
      [] type = "spo2_trend"        -> 5
      [] type = "temperature_trend" -> 6

InOrder(list) ==
    \A i, j \in 1..Len(list) : i < j => Rank(list[i].type) < Rank(list[j].type)

\* C26: the list analyze builds, and the list it returns, have the threshold
\* events in the order heart_rate, spo2, temperature, then the trend events
\* in the order heart_rate_trend, spo2_trend, temperature_trend; the events
\* returned are events of the list built, in the same relative order; a
\* heart-rate threshold event that is returned is returned first.
C26_EventOrder ==
    /\ InOrder(raw_alerts)
    /\ InOrder(returned)
    /\ \E at \in [1..Len(returned) -> 1..Len(raw_alerts)] :
          /\ \A k \in 1..Len(returned) : returned[k] = raw_alerts[at[k]]
          /\ \A k, m \in 1..Len(returned) : k < m => at[k] < at[m]
    /\ \A k \in 1..Len(returned) :
          returned[k].type = "heart_rate" => k = 1

\* All six events were classified; the SpO2 and temperature threshold events
\* were dropped, and the heart-rate event leads the three trend events.
C26_Witness ==
    /\ Len(raw_alerts) = 6
    /\ Len(returned) = 4
    /\ returned[1].type = "heart_rate"
    /\ returned[2].type = "heart_rate_trend"
    /\ returned[3].type = "spo2_trend"
    /\ returned[4].type = "temperature_trend"

(***************************************************************************)
(* Further claims about the monitoring loop (specification Spec).          *)
(***************************************************************************)
\* C27: at the start of every tick the consecutive-failure counter is between
\* 0 and 4, and the counter never stands at 5 or more after a tick: a tick
\* that brings it to 5 dispatches the escalation alert and resets it.
C27_CounterBelowThreshold ==
    /\ pc = "tick" => consecutive_errors \in 0..(MaxConsecutiveErrors - 1)
    /\ consecutive_errors < MaxConsecutiveErrors

\* The keys whose emission time the filter call of the tick in progress
\* recorded.
RecordedKeys ==
    { k \in DOMAIN last_alert_time :
        \/ k \notin DOMAIN prev_alert_time
        \/ last_alert_time[k] # prev_alert_time[k] }

\* The keys of the events a tick has handed to send_alert, and of those its
\* loop over the events has still to reach.
SentKeys == { AlertKey(tick_log.sent[i]) : i \in 1..Len(tick_log.sent) }

PendingKeys == { AlertKey(alerts[i]) : i \in 1..Len(alerts) }

Analysed == tick_log.open /\ tick_log.reading_saves > 0

\* C28: an emission time is recorded only by the analyze call of a tick, and
\* every key that call recorded belongs to an event the same tick hands to
\* send_alert: while the tick runs the event is sent or next in the loop, and
\* when the tick ends it has been sent, also when a send or an insert of the
\* tick failed on the way.
C28_RecordedKeyDispatched ==
    /\ [](Analysed => RecordedKeys \subseteq (SentKeys \cup PendingKeys))
    /\ [](Analysed /\ pc = "sleep" => RecordedKeys \subseteq SentKeys)
    /\ [](pc # "dispatch" => alerts = << >>)
    /\ [][last_alert_time' # last_alert_time
            => pc = "tick" /\ pc' = "dispatch" /\ Analysed']_vars

\* A tick has ended in which two keys were recorded, an insert failed, and
\* both events were handed to send_alert.
C28_Witness ==
    /\ Analysed
    /\ pc = "sleep"
    /\ Cardinality(RecordedKeys) = 2
    /\ tick_log.failed_saves > 0
    /\ RecordedKeys \subseteq SentKeys

(***************************************************************************)
(* The cooldown key (specification SpecOrder).                             *)
(***************************************************************************)
\* The event types of the analyzer, of the loop's failure branch and of the
\* tests, paired with the severities.
EventTypes ==
    {"heart_rate", "spo2", "temperature", "heart_rate_trend", "spo2_trend",
     "temperature_trend", "system_error", "test"}

TypeSeverityPairs == EventTypes \X Severities

KeyOfPair(p) == AlertKey([type |-> p[1], severity |-> p[2]])

DistinctKeys(list) ==
    \A i, j \in 1..Len(list) :
        AlertKey(list[i]) = AlertKey(list[j]) => i = j

\* C29: two different (type, severity) pairs never give the same cooldown
\* key, so every entry of last_alert_time belongs to one pair only, and the
\* events one analyze call builds, and those it returns, have pairwise
\* different keys.
C29_KeyInjective ==
    /\ \A p, q \in TypeSeverityPairs : KeyOfPair(p) = KeyOfPair(q) => p = q
    /\ \A k \in DOMAIN last_alert_time :
          Cardinality({ p \in TypeSeverityPairs : KeyOfPair(p) = k }) = 1
    /\ \A e, f \in emitted.all :
          << e.type, e.severity >> # << f.type, f.severity >>
              => AlertKey(e) # AlertKey(f)
    /\ DistinctKeys(raw_alerts)
    /\ DistinctKeys(returned)

\* One call built six events, and the cooldown state holds the entries of
\* heart_rate and of heart_rate_trend, both of severity warning, side by side.
C29_Witness ==
    /\ Len(raw_alerts) = 6
    /\ Len(returned) >= 2
    /\ "heart_rate_warning" \in DOMAIN last_alert_time
    /\ "heart_rate_trend_warning" \in DOMAIN last_alert_time
    /\ Cardinality(DOMAIN last_alert_time) = 6

(***************************************************************************)
(* The history query (specification SpecRecent).                           *)
(***************************************************************************)
\* How many entries a query for response.arg entries is to return.
Expected ==
    IF response.arg < Len(alert_history) THEN response.arg
    ELSE Len(alert_history)

\* C30: get_alert_history(count), for every count >= 0, returns at most count
\* entries, namely the min(count, len(history)) events dispatched last, in
\* the order of their dispatch, and leaves the history as it was.
C30_ReturnsAtMostCount ==
    (response.op = "get_alert_history" /\ response.arg >= 0) =>
        /\ Len(response.value) <= response.arg
        /\ response.value = SubSeq(alert_history,
                                   Len(alert_history) - Expected + 1,
                                   Len(alert_history))
        /\ alert_history = dispatched

\* What the code does: for every count >= 1 the result is as C30 says; for
\* count = 0 it is the whole history.
C30_ZeroReturnsAll ==
    response.op = "get_alert_history" =>
        /\ alert_history = dispatched
        /\ response.arg >= 1 =>
              response.value = SubSeq(alert_history,
                                      Len(alert_history) - Expected + 1,
                                      Len(alert_history))
        /\ response.arg = 0 => response.value = alert_history

\* get_alert_history(0) has returned a history of three events.
C30_ZeroCase ==
    /\ response.op = "get_alert_history"
    /\ response.arg = 0
    /\ Len(response.value) = 3


====
